---- MODULE Spec2Model ----
(***************************************************************************)
(* Operational core of the OIDyssey SNMP node: the per-device rate         *)
(* limiter, the response cache, the session pool and the trap listeners    *)
(* (batch receiver and continuous trigger).  Each component has its own    *)
(* specification (SpecRL, SpecCache, SpecPool, SpecTrap); the variables of *)
(* the other components stay at their initial values.                      *)
(* Times are milliseconds of Date.now(), counted from 0.                   *)
(***************************************************************************)
EXTENDS Integers, Sequences, FiniteSets, TLC

VARIABLES
    now,            \* Date.now()
    \* ---- SnmpRateLimiter
    rlConfig,       \* this.config
    deviceLimits,   \* this.deviceLimits : key -> RateLimitEntry
    cleanupTimer,   \* this.cleanupTimer is set
    liveTimers,     \* the interval timers that setInterval started and clearInterval has not stopped
    rlLast,         \* observation: the last checkRateLimit call and its answer
    rlAllowed,      \* observation: per key, times of the calls answered allowed
    rlCeil,         \* observation: per key, time of the pending ceiling denial
    \* ---- SnmpCacheManager
    caConfig,       \* this.config
    cache,          \* this.cache : key -> CacheEntry
    cacheOrder,     \* the insertion order of this.cache (a Map iterates in it)
    caLast,         \* observation: the last cache call and its answer
    \* ---- SnmpSessionManager
    poConfig,       \* this.config
    sessions,       \* this.sessions : pool key -> SnmpSession
    sessionOrder,   \* the insertion order of this.sessions
    sessionIdCounter, \* this.sessionIdCounter
    handles,        \* the transport handles opened so far: handle -> state
    calls,          \* the getSession calls suspended at an await
    borrowed,       \* observation: ids returned by getSession and not released since
    poLast,         \* observation: the last completed pool call and its answer
    \* ---- trap listeners
    allowedInput,   \* the allowedSources option the callers of this run pass
    activeTrapListeners, \* activeTrapListeners : port -> listener (its index)
    trapListeners,  \* the batch listeners started so far, each with its closure
    trigger,        \* the continuous listener of SnmpTrapTrigger.trigger
    trLast,         \* observation: the last trap operation and what it did
    \* ---- the operations snmpGet, snmpWalk, snmpBulkGet
    orCalls,        \* the operations waiting for the answer of the device
    orSent,         \* observation: per device, the transport sessions opened for it
    orLast          \* observation: the last step of an operation and its outcome

rlVars == <<rlConfig, deviceLimits, cleanupTimer, liveTimers, rlLast, rlAllowed, rlCeil>>
caVars == <<caConfig, cache, cacheOrder, caLast>>
poVars == <<poConfig, sessions, sessionOrder, sessionIdCounter, handles, calls, borrowed, poLast>>
trVars == <<allowedInput, activeTrapListeners, trapListeners, trigger, trLast>>
orVars == <<orCalls, orSent, orLast>>
vars == <<now, rlVars, caVars, poVars, trVars, orVars>>

(***************************************************************************)
(* Bounds                                                                  *)
(***************************************************************************)
RlMaxTime == 5
MaxReq == 2
MaxWindow == 3
MaxBlock == 3
CaMaxTime == 3
MaxCache == 2
MaxTtl == 2
MaxHits == 1
PoMaxTime == 2
MaxSessions == 2
MaxIds == 2
MaxListeners == 2
MaxTraps == 1
MaxRules == 1
OrMaxTime == 1
DevMaxTime == 2

None == "none"

Max(a, b) == IF a > b THEN a ELSE b
Min(a, b) == IF a < b THEN a ELSE b
CeilDiv(a, b) == (a + b - 1) \div b
Range(s) == {s[i] : i \in 1..Len(s)}

\* The clock advances between two operations.
Tick(limit) ==
    /\ now < limit
    /\ now' = now + 1

(***************************************************************************)
(* Strings are sequences of characters.                                    *)
(***************************************************************************)
RECURSIVE TrimStart(_)
TrimStart(s) == IF s # <<>> /\ Head(s) = " " THEN TrimStart(Tail(s)) ELSE s

RECURSIVE TrimEnd(_)
TrimEnd(s) ==
    IF s # <<>> /\ s[Len(s)] = " " THEN TrimEnd(SubSeq(s, 1, Len(s) - 1)) ELSE s

Trim(s) == TrimEnd(TrimStart(s))

LowerChar(c) ==
    CASE c = "A" -> "a"
      [] c = "B" -> "b"
      [] c = "H" -> "h"
      [] OTHER -> c

ToLowerCase(s) == [i \in 1..Len(s) |-> LowerChar(s[i])]

\* Host strings given to the components by their callers.
RawHosts == { <<"h", "a">>, <<"H", "a", " ">>, <<"h", "b">> }

\* The components a specification leaves alone stay as constructed.
CaIdle ==
    /\ caConfig = [maxCacheSize |-> 1, dynamicDataTtl |-> 1, enableCompression |-> FALSE]
    /\ cache = <<>>
    /\ cacheOrder = <<>>
    /\ caLast = [op |-> "none"]

PoIdle ==
    /\ poConfig = [maxSessions |-> 1, sessionTimeout |-> 1, maxRequestsPerSession |-> 1]
    /\ sessions = <<>>
    /\ sessionOrder = <<>>
    /\ sessionIdCounter = 0
    /\ handles = <<>>
    /\ calls = <<>>
    /\ borrowed = {}
    /\ poLast = [op |-> "none"]

NoTrigger == [state |-> "none"]

TrIdle ==
    /\ allowedInput = <<>>
    /\ activeTrapListeners = <<>>
    /\ trapListeners = <<>>
    /\ trigger = NoTrigger
    /\ trLast = [op |-> "none"]

OrIdle ==
    /\ orCalls = <<>>
    /\ orSent = <<>>
    /\ orLast = [op |-> "none"]

(***************************************************************************)
(* SnmpRateLimiter                                                         *)
(***************************************************************************)
\* Mutant: the key is lower-cased but not trimmed.
normalizeHost_NoTrim(host) == ToLowerCase(host)

normalizeHost(host) == Trim(ToLowerCase(host))

RlKeys == {normalizeHost(h) : h \in RawHosts}

\* The spellings of one device used by the rate limiter's callers.
RlHosts == { <<"h", "a">>, <<"H", "a", " ">> }

RlConfigs ==
    [maxRequestsPerWindow : 1..MaxReq,
     windowSizeMs : 1..MaxWindow,
     blockDurationMs : 1..MaxBlock,
     enableRateLimiting : {TRUE}]

NewEntry(key, t) == [host |-> key, requests |-> <<>>, windowStart |-> t, blocked |-> FALSE]

\* entry.requests.filter(timestamp => timestamp > cutoff)
FilterRequests(requests, cutoff) == SelectSeq(requests, LAMBDA ts : ts > cutoff)

\* Mutant: the cooldown test measures against the request window.
CooldownActive_Window(entry, t) ==
    entry.blocked /\ (t - entry.windowStart) < rlConfig.windowSizeMs

\* line 52: entry.blocked && (now - entry.windowStart) < blockDurationMs
CooldownActive(entry, t) ==
    entry.blocked /\ (t - entry.windowStart) < rlConfig.blockDurationMs

\* lines 61-66: the block period has expired
CooldownExpired(entry, t) ==
    entry.blocked /\ (t - entry.windowStart) >= rlConfig.blockDurationMs

\* Mutant: the reset after the cooldown keeps the recorded requests.
AfterReset_KeepRequests(entry, t) ==
    LET e1 == IF CooldownExpired(entry, t)
              THEN [entry EXCEPT !.blocked = FALSE, !.windowStart = t]
              ELSE entry
    IN  [e1 EXCEPT !.requests = FilterRequests(e1.requests, t - rlConfig.windowSizeMs)]

\* lines 61-70: reset after the cooldown, then prune to the current window
AfterReset(entry, t) ==
    LET e1 == IF CooldownExpired(entry, t)
              THEN [entry EXCEPT !.blocked = FALSE, !.requests = <<>>, !.windowStart = t]
              ELSE entry
    IN  [e1 EXCEPT !.requests = FilterRequests(e1.requests, t - rlConfig.windowSizeMs)]

\* line 73: the ceiling test
CeilingReached(entry) == Len(entry.requests) >= rlConfig.maxRequestsPerWindow

\* The entry as checkRateLimit leaves it, and the answer it returns.
CheckOutcome(entry, t) ==
    IF CooldownActive(entry, t)
    THEN [entry |-> entry, allowed |-> FALSE, kind |-> "cooldown",
          retryAfter |-> CeilDiv(rlConfig.blockDurationMs - (t - entry.windowStart), 1000)]
    ELSE LET e2 == AfterReset(entry, t) IN
         IF CeilingReached(e2)
         THEN [entry |-> [e2 EXCEPT !.blocked = TRUE, !.windowStart = t],
               allowed |-> FALSE, kind |-> "ceiling",
               retryAfter |-> CeilDiv(rlConfig.blockDurationMs, 1000)]
         ELSE [entry |-> [e2 EXCEPT !.requests = Append(e2.requests, t)],
               allowed |-> TRUE, kind |-> "ok", retryAfter |-> 0]

Put(f, k, v) == [x \in (DOMAIN f) \cup {k} |-> IF x = k THEN v ELSE f[x]]
Drop(f, ks) == [x \in (DOMAIN f) \ ks |-> f[x]]

NoCall == [op |-> None]

checkRateLimit(host) ==
    LET key == normalizeHost(host) IN
    IF ~rlConfig.enableRateLimiting
    THEN /\ rlLast' = [op |-> "check", key |-> key, time |-> now, allowed |-> TRUE,
                       kind |-> "disabled", retryAfter |-> 0, prevCeil |-> -1,
                       found |-> 0, wasBlocked |-> FALSE]
         /\ UNCHANGED <<now, rlConfig, deviceLimits, cleanupTimer, liveTimers, rlAllowed, rlCeil, caVars, poVars, trVars, orVars>>
    ELSE LET entry == IF key \in DOMAIN deviceLimits THEN deviceLimits[key]
                      ELSE NewEntry(key, now)
             out == CheckOutcome(entry, now)
         IN  /\ deviceLimits' = Put(deviceLimits, key, out.entry)
             /\ rlLast' = [op |-> "check", key |-> key, time |-> now,
                           allowed |-> out.allowed, kind |-> out.kind,
                           retryAfter |-> out.retryAfter, prevCeil |-> rlCeil[key],
                           found |-> Len(FilterRequests(entry.requests,
                                             now - rlConfig.windowSizeMs)),
                           wasBlocked |-> entry.blocked]
             /\ rlAllowed' = [rlAllowed EXCEPT ![key] =
                    IF out.allowed
                    THEN Append(FilterRequests(@, now - rlConfig.windowSizeMs), now)
                    ELSE FilterRequests(@, now - rlConfig.windowSizeMs)]
             /\ rlCeil' = [rlCeil EXCEPT ![key] =
                    CASE out.kind = "ceiling" -> now
                      [] out.kind = "cooldown" -> @
                      [] OTHER -> -1]
             /\ UNCHANGED <<now, rlConfig, cleanupTimer, liveTimers, caVars, poVars, trVars, orVars>>

\* resetRateLimit (admin): the device starts afresh, and so does what is observed of it
resetRateLimit(host) ==
    LET key == normalizeHost(host) IN
    /\ deviceLimits' = Drop(deviceLimits, {key})
    /\ rlAllowed' = [rlAllowed EXCEPT ![key] = <<>>]
    /\ rlCeil' = [rlCeil EXCEPT ![key] = -1]
    /\ rlLast' = NoCall
    /\ UNCHANGED <<now, rlConfig, cleanupTimer, liveTimers, caVars, poVars, trVars, orVars>>

\* cleanup(): the periodic sweep, run by the interval timer
SweptEntry(entry, t) ==
    [entry EXCEPT !.requests = FilterRequests(entry.requests, t - rlConfig.windowSizeMs * 2)]

SweepKeeps(entry, t) ==
    /\ ~(~entry.blocked /\ Len(entry.requests) = 0)
    /\ ~(~entry.blocked /\ Len(SweptEntry(entry, t).requests) = 0)

rlCleanup ==
    /\ liveTimers > 0
    /\ deviceLimits' =
          [k \in {x \in DOMAIN deviceLimits : SweepKeeps(deviceLimits[x], now)} |->
              SweptEntry(deviceLimits[k], now)]
    /\ rlLast' = NoCall
    /\ UNCHANGED <<now, rlConfig, cleanupTimer, liveTimers, rlAllowed, rlCeil, caVars, poVars, trVars, orVars>>

\* resetAllRateLimits(), and what is observed of the devices with it
Cleared ==
    /\ deviceLimits' = <<>>
    /\ rlAllowed' = [k \in RlKeys |-> <<>>]
    /\ rlCeil' = [k \in RlKeys |-> -1]

\* shutdown(): clearInterval of the timer the field holds, then resetAllRateLimits()
shutdown ==
    /\ cleanupTimer' = FALSE
    /\ liveTimers' = IF cleanupTimer THEN liveTimers - 1 ELSE liveTimers
    /\ Cleared
    /\ rlLast' = [op |-> "shutdown"]
    /\ UNCHANGED <<now, rlConfig, caVars, poVars, trVars, orVars>>

\* setEnabled(enabled)
setEnabled(enabled) ==
    /\ rlConfig' = [rlConfig EXCEPT !.enableRateLimiting = enabled]
    /\ IF ~enabled
       THEN /\ cleanupTimer' = FALSE
            /\ liveTimers' = IF cleanupTimer THEN liveTimers - 1 ELSE liveTimers
            /\ Cleared
       ELSE /\ cleanupTimer' = TRUE
            /\ liveTimers' = IF cleanupTimer THEN liveTimers ELSE liveTimers + 1
            /\ UNCHANGED <<deviceLimits, rlAllowed, rlCeil>>
    /\ rlLast' = [op |-> "setEnabled", enabled |-> enabled]
    /\ UNCHANGED <<now, caVars, poVars, trVars, orVars>>

RlInit ==
    /\ rlConfig \in RlConfigs
    /\ deviceLimits = <<>>
    /\ cleanupTimer = TRUE
    /\ liveTimers = 1
    /\ rlLast = NoCall
    /\ rlAllowed = [k \in RlKeys |-> <<>>]
    /\ rlCeil = [k \in RlKeys |-> -1]

RlIdle ==
    /\ rlConfig = [maxRequestsPerWindow |-> 1, windowSizeMs |-> 1, blockDurationMs |-> 1,
                   enableRateLimiting |-> TRUE]
    /\ deviceLimits = <<>>
    /\ cleanupTimer = TRUE
    /\ liveTimers = 1
    /\ rlLast = NoCall
    /\ rlAllowed = [k \in RlKeys |-> <<>>]
    /\ rlCeil = [k \in RlKeys |-> -1]

RlNext ==
    \/ Tick(RlMaxTime) /\ UNCHANGED <<rlVars, caVars, poVars, trVars, orVars>>
    \/ \E h \in RlHosts : checkRateLimit(h)
    \/ \E h \in RlHosts : resetRateLimit(h)
    \/ rlCleanup

InitRL ==
    /\ now = 0
    /\ OrIdle
    /\ TrIdle
    /\ RlInit
    /\ CaIdle
    /\ PoIdle

SpecRL == InitRL /\ [][RlNext]_vars

(***************************************************************************)
(* SnmpCacheManager                                                        *)
(***************************************************************************)
CacheHosts == { <<"h", "a">>, <<"H", "b">> }
CacheOids == { <<"1">> }
CacheValues == {"v1"}

CaConfigs ==
    [maxCacheSize : 1..MaxCache, dynamicDataTtl : {1}, enableCompression : {FALSE}]

\* `${host.toLowerCase()}:${oid}`
createCacheKey(host, oid) == ToLowerCase(host) \o <<":">> \o oid

\* No OID of CacheOids matches a TTL_PATTERNS entry: the default applies.
determineTtl(oid) == caConfig.dynamicDataTtl

\* placeholders in the source: both return their argument
compress(value) == value
decompress(value) == value

\* (Date.now() - entry.timestamp) > entry.ttl
isExpired(entry, t) == (t - entry.timestamp) > entry.ttl

\* cleanup(): delete every expired entry
CleanedKeys(c, t) == {k \in DOMAIN c : ~isExpired(c[k], t)}

\* Mutant: the most recently used entry sorts first.
EvictBefore_Newest(a, b) ==
    \/ a.lastAccess > b.lastAccess
    \/ a.lastAccess = b.lastAccess /\ a.hitCount < b.hitCount

\* The comparator of evictOldEntries: last access, then hit count.
EvictBefore(a, b) ==
    \/ a.lastAccess < b.lastAccess
    \/ a.lastAccess = b.lastAccess /\ a.hitCount < b.hitCount

\* Array.prototype.sort is stable: insert k after every element not after it.
RECURSIVE InsertSorted(_, _, _)
InsertSorted(c, sorted, k) ==
    IF sorted = <<>> THEN <<k>>
    ELSE IF EvictBefore(c[k], c[Head(sorted)]) THEN <<k>> \o sorted
    ELSE <<Head(sorted)>> \o InsertSorted(c, Tail(sorted), k)

RECURSIVE SortEntries(_, _)
SortEntries(c, order) ==
    IF order = <<>> THEN <<>>
    ELSE InsertSorted(c, SortEntries(c, SubSeq(order, 1, Len(order) - 1)), order[Len(order)])

\* Math.floor(entries.length * 0.2)
RemoveCount(n) == (n * 2) \div 10

\* evictOldEntries(): the keys that stay, given the Map's iteration order
EvictKeeps(c, order, t) ==
    LET live == CleanedKeys(c, t)
        liveOrder == SelectSeq(order, LAMBDA k : k \in live)
    IN  IF Cardinality(live) < caConfig.maxCacheSize THEN live
        ELSE LET sorted == SortEntries(c, liveOrder)
                 n == RemoveCount(Len(sorted))
             IN  live \ {sorted[i] : i \in 1..n}

\* line 139: evict when the cache is full
KeysBeforeInsert(c, order, t) ==
    IF Cardinality(DOMAIN c) >= caConfig.maxCacheSize
    THEN EvictKeeps(c, order, t)
    ELSE DOMAIN c

Restrict(f, ks) == [x \in ks |-> f[x]]
KeepOrder(order, ks) == SelectSeq(order, LAMBDA k : k \in ks)
\* Map.set keeps the place of a key it already holds
OrderAfterSet(order, k) == IF k \in Range(order) THEN order ELSE Append(order, k)

CaNoCall == [op |-> None]

\* Mutant: a write to a key the cache holds keeps the entry's timestamp.
setCachedValue_KeepsTimestamp(host, oid, value, customTtl) ==
    LET key == createCacheKey(host, oid)
        ttl == IF customTtl = <<>> THEN determineTtl(oid) ELSE customTtl[1]
        kept == KeysBeforeInsert(cache, cacheOrder, now)
        entry == [value |-> IF caConfig.enableCompression THEN compress(value) ELSE value,
                  timestamp |-> IF key \in DOMAIN cache THEN cache[key].timestamp ELSE now,
                  ttl |-> ttl, oid |-> oid, host |-> host,
                  hitCount |-> 0, lastAccess |-> now]
    IN  /\ cache' = Put(Restrict(cache, kept), key, entry)
        /\ cacheOrder' = OrderAfterSet(KeepOrder(cacheOrder, kept), key)
        /\ caLast' = [op |-> "set", key |-> key, value |-> value, ttl |-> ttl, at |-> now,
                      existed |-> key \in DOMAIN cache,
                      prevAge |-> IF key \in DOMAIN cache THEN now - cache[key].timestamp ELSE 0,
                      evictedLive |-> Cardinality(CleanedKeys(cache, now) \ kept)]
        /\ UNCHANGED <<now, caConfig, rlVars, poVars, trVars, orVars>>

setCachedValue(host, oid, value, customTtl) ==
    LET key == createCacheKey(host, oid)
        \* customTtl ?? this.determineTtl(oid); <<>> stands for undefined
        ttl == IF customTtl = <<>> THEN determineTtl(oid) ELSE customTtl[1]
        kept == KeysBeforeInsert(cache, cacheOrder, now)
        entry == [value |-> IF caConfig.enableCompression THEN compress(value) ELSE value,
                  timestamp |-> now, ttl |-> ttl, oid |-> oid, host |-> host,
                  hitCount |-> 0, lastAccess |-> now]
    IN  /\ cache' = Put(Restrict(cache, kept), key, entry)
        /\ cacheOrder' = OrderAfterSet(KeepOrder(cacheOrder, kept), key)
        /\ caLast' = [op |-> "set", key |-> key, value |-> value, ttl |-> ttl, at |-> now,
                      existed |-> key \in DOMAIN cache,
                      prevAge |-> IF key \in DOMAIN cache THEN now - cache[key].timestamp ELSE 0,
                      evictedLive |-> Cardinality(CleanedKeys(cache, now) \ kept)]
        /\ UNCHANGED <<now, caConfig, rlVars, poVars, trVars, orVars>>

getCachedValue(host, oid) ==
    LET key == createCacheKey(host, oid)
        had == key \in DOMAIN cache
        hit == had /\ ~isExpired(cache[key], now)
    IN  /\ had /\ hit => cache[key].hitCount < MaxHits
        /\ cache' = IF ~had THEN cache
                    ELSE IF ~hit THEN Drop(cache, {key})
                    ELSE [cache EXCEPT ![key].hitCount = @ + 1, ![key].lastAccess = now]
        /\ cacheOrder' = IF had /\ ~hit THEN KeepOrder(cacheOrder, DOMAIN cache \ {key})
                         ELSE cacheOrder
        /\ caLast' = [op |-> "get", key |-> key, had |-> had,
                      age |-> IF had THEN now - cache[key].timestamp ELSE 0,
                      ttl |-> IF had THEN cache[key].ttl ELSE 0,
                      stored |-> IF had THEN cache[key].value ELSE None,
                      result |-> IF hit
                                 THEN (IF caConfig.enableCompression
                                       THEN decompress(cache[key].value)
                                       ELSE cache[key].value)
                                 ELSE None]
        /\ UNCHANGED <<now, caConfig, rlVars, poVars, trVars, orVars>>

removeCachedValue(host, oid) ==
    LET key == createCacheKey(host, oid) IN
    /\ cache' = Drop(cache, {key})
    /\ cacheOrder' = KeepOrder(cacheOrder, DOMAIN cache \ {key})
    /\ caLast' = CaNoCall
    /\ UNCHANGED <<now, caConfig, rlVars, poVars, trVars, orVars>>

\* cleanup(), run by the five-minute interval timer
caCleanup ==
    /\ cache' = Restrict(cache, CleanedKeys(cache, now))
    /\ cacheOrder' = KeepOrder(cacheOrder, CleanedKeys(cache, now))
    /\ caLast' = CaNoCall
    /\ UNCHANGED <<now, caConfig, rlVars, poVars, trVars, orVars>>

CaInit ==
    /\ caConfig \in CaConfigs
    /\ cache = <<>>
    /\ cacheOrder = <<>>
    /\ caLast = CaNoCall

CaNext ==
    \/ Tick(CaMaxTime) /\ UNCHANGED <<rlVars, caVars, poVars, trVars, orVars>>
    \/ \E h \in CacheHosts, o \in CacheOids, v \in CacheValues, t \in {<<>>} \cup {<<x>> : x \in 1..MaxTtl} :
          setCachedValue(h, o, v, t)
    \/ \E h \in CacheHosts, o \in CacheOids : getCachedValue(h, o)
    \/ \E h \in CacheHosts, o \in CacheOids : removeCachedValue(h, o)
    \/ caCleanup

InitCache ==
    /\ now = 0
    /\ OrIdle
    /\ TrIdle
    /\ RlIdle
    /\ CaInit
    /\ PoIdle

SpecCache == InitCache /\ [][CaNext]_vars

(***************************************************************************)
(* CredentialUtils.createCredentialHash: 32-bit integers are pairs         *)
(* <<high 16 bits, low 16 bits>>, so that the wrap-around is computed.     *)
(***************************************************************************)
Half == 65536

CharCode(c) ==
    CASE c = "a" -> 97 [] c = "b" -> 98 [] c = "c" -> 99 [] c = "h" -> 104
      [] c = "p" -> 112 [] c = "v" -> 118
      [] c = "A" -> 65 [] c = "B" -> 66 [] c = "H" -> 72
      [] c = "0" -> 48 [] c = "1" -> 49 [] c = "2" -> 50 [] c = "3" -> 51
      [] c = "4" -> 52 [] c = "5" -> 53 [] c = "6" -> 54 [] c = "7" -> 55
      [] c = "8" -> 56 [] c = "9" -> 57
      [] c = ":" -> 58 [] c = " " -> 32 [] c = "." -> 46 [] c = "/" -> 47

DigitChar(d) == <<"0", "1", "2", "3", "4", "5", "6", "7", "8", "9">>[d + 1]

\* String(n) of a non-negative integer
RECURSIVE Decimal(_)
Decimal(n) == IF n < 10 THEN <<DigitChar(n)>> ELSE Decimal(n \div 10) \o <<DigitChar(n % 10)>>

\* ((hash << 5) - hash) + char, cut to 32 bits by hash & hash
HashStep(h, code) ==
    LET lo == h[2] * 31 + code
        hi == h[1] * 31 + (lo \div Half)
    IN  <<hi % Half, lo % Half>>

RECURSIVE HashFold(_, _)
HashFold(h, str) ==
    IF str = <<>> THEN h ELSE HashFold(HashStep(h, CharCode(Head(str))), Tail(str))

\* Math.abs of the signed 32-bit value
Abs32(h) ==
    IF h[1] < Half \div 2 THEN h
    ELSE IF h[2] = 0 THEN <<(Half - h[1]) % Half, 0>>
    ELSE <<Half - 1 - h[1], Half - h[2]>>

simpleChecksum(str) == Abs32(HashFold(<<0, 0>>, str))

\* The number a pair stands for; Abs32 leaves it below 2^31.
PairValue(h) == h[1] * Half + h[2]

RECURSIVE Join(_)
Join(parts) ==
    IF Len(parts) = 1 THEN parts[1] ELSE parts[1] \o <<":">> \o Join(Tail(parts))

\* hash.toString(36) is one-to-one on numbers: the number stands for the string.
simpleHash(str) == PairValue(simpleChecksum(str))

createCredentialHash(credentials, host) ==
    simpleHash(Join(<<ToLowerCase(host),
                      credentials.version,
                      Decimal(IF credentials.port = 0 THEN 161 ELSE credentials.port),
                      Decimal(Len(credentials.community)),
                      Decimal(IF credentials.community = <<>> THEN 0
                              ELSE PairValue(simpleChecksum(credentials.community)))>>))

(***************************************************************************)
(* SnmpSessionManager                                                      *)
(***************************************************************************)
SKey(host) == [host |-> host, community |-> <<"p", "b">>, version |-> <<"2", "c">>, port |-> 161]

\* The keys the pool's callers ask for.
SessionKeys == { SKey(<<"h", "a">>), SKey(<<"h", "b">>) }

PoConfigs ==
    [maxSessions : 1..MaxSessions,
     sessionTimeout : {1},
     maxRequestsPerSession : {1}]

\* `${key.host}:${key.port}:${key.version}:${hash}`
createSessionKey(key) == <<key.host, key.port, key.version, createCredentialHash(key, key.host)>>

\* One device asked for with three community strings, two of them of equal
\* length.
CredKeys ==
    { [SKey(<<"h", "a">>) EXCEPT !.community = c] : c \in { <<"A", "a">>, <<"B", "B">>, <<"p", "b">> } }

\* the keys of the callers' configurations, computed once
SessionKeyOf == [key \in SessionKeys \cup CredKeys |-> createSessionKey(key)]

\* Mutant: a session idle for exactly the timeout is already stale.
isSessionValid_Eager(session, t) ==
    /\ ~((t - session.lastUsed) >= poConfig.sessionTimeout)
    /\ ~(session.requestCount > poConfig.maxRequestsPerSession)
    /\ session.session # 0

\* isSessionValid; a handle is a positive number, 0 stands for a missing one
isSessionValid(session, t) ==
    /\ ~((t - session.lastUsed) > poConfig.sessionTimeout)
    /\ ~(session.requestCount > poConfig.maxRequestsPerSession)
    /\ session.session # 0

\* A pool: the fields closeSession, evictOldestSession and createNewSession touch.
PoolNow == [sessions |-> sessions, order |-> sessionOrder, counter |-> sessionIdCounter,
            handles |-> handles]

\* findSessionKey / findSessionById: the first entry in iteration order with that id
KeysWithId(p, id) == SelectSeq(p.order, LAMBDA k : p.sessions[k].id = id)

\* Mutant: a close() that throws leaves the entry in the pool.
CloseIn_ThrowKeeps(p, id, closeThrows) ==
    LET ks == KeysWithId(p, id) IN
    IF ks = <<>> THEN p
    ELSE LET k == ks[1]
             h == p.sessions[k].session
         IN  IF closeThrows /\ h # 0
             THEN [p EXCEPT !.handles = [@ EXCEPT ![h] = "closeFailed"]]
             ELSE [p EXCEPT !.sessions = Drop(p.sessions, {k}),
                            !.order = SelectSeq(p.order, LAMBDA x : x # k),
                            !.handles = IF h = 0 THEN @ ELSE [@ EXCEPT ![h] = "closed"]]

\* closeSession(id): close the handle (which may throw), delete the entry
CloseIn(p, id, closeThrows) ==
    LET ks == KeysWithId(p, id) IN
    IF ks = <<>> THEN p
    ELSE LET k == ks[1]
             h == p.sessions[k].session
         IN  [p EXCEPT !.sessions = Drop(p.sessions, {k}),
                       !.order = SelectSeq(p.order, LAMBDA x : x # k),
                       !.handles = IF h = 0 THEN @
                                   ELSE [@ EXCEPT ![h] = IF closeThrows THEN "closeFailed"
                                                         ELSE "closed"]]

\* evictOldestSession: the inactive session with the smallest lastUsed below now;
\* the strict comparison keeps the first such session in iteration order.
RECURSIVE OldestFrom(_, _, _, _)
OldestFrom(p, order, oldestTime, oldest) ==
    IF order = <<>> THEN oldest
    ELSE LET sn == p.sessions[Head(order)] IN
         IF ~sn.active /\ sn.lastUsed < oldestTime
         THEN OldestFrom(p, Tail(order), sn.lastUsed, sn.id)
         ELSE OldestFrom(p, Tail(order), oldestTime, oldest)

\* 0: no session can be evicted
OldestSession(p, t) == OldestFrom(p, p.order, t, 0)

\* Mutant: the session id is taken from the clock alone.
CreateIn_TimeId(p, key, t) ==
    LET id == t + 1
        k == SessionKeyOf[key]
        sn == [id |-> id, host |-> key.host, community |-> key.community,
               version |-> key.version, port |-> key.port,
               lastUsed |-> t, requestCount |-> 0, active |-> FALSE, session |-> id]
    IN  [p EXCEPT !.sessions = Put(p.sessions, k, sn),
                  !.order = IF k \in Range(p.order) THEN p.order ELSE Append(p.order, k),
                  !.counter = p.counter + 1,
                  !.handles = Put(p.handles, id, "open")]

\* createNewSession, once snmp.createSession has returned a handle
CreateIn(p, key, t) ==
    LET id == p.counter + 1
        k == SessionKeyOf[key]
        sn == [id |-> id, host |-> key.host, community |-> key.community,
               version |-> key.version, port |-> key.port,
               lastUsed |-> t, requestCount |-> 0, active |-> FALSE, session |-> id]
    IN  [p EXCEPT !.sessions = Put(p.sessions, k, sn),
                  !.order = IF k \in Range(p.order) THEN p.order ELSE Append(p.order, k),
                  !.counter = id,
                  !.handles = Put(p.handles, id, "open")]

\* createNewSession when snmp.createSession throws: only the id is used up
CreateFailIn(p) == [p EXCEPT !.counter = p.counter + 1]

SetPool(p) ==
    /\ sessions' = p.sessions
    /\ sessionOrder' = p.order
    /\ sessionIdCounter' = p.counter
    /\ handles' = p.handles

IdsIn(p) == {p.sessions[k].id : k \in DOMAIN p.sessions}

\* What one synchronous stretch of getSession leaves behind: the pool, and either
\* the answer (done) or the await it is suspended at (pc).
Answer(p, id, err, opened, closed) ==
    [pool |-> p, done |-> TRUE, pc |-> "done", result |-> id, err |-> err,
     opened |-> opened, closed |-> closed]

Suspended(p, pc, closed) ==
    [pool |-> p, done |-> FALSE, pc |-> pc, result |-> 0, err |-> "none",
     opened |-> FALSE, closed |-> closed]

\* line 65: return this.createNewSession(key)
CreateOutcome(p, key, closed, createFails) ==
    IF createFails THEN Answer(CreateFailIn(p), 0, "create", FALSE, closed)
    ELSE Answer(CreateIn(p, key, now), p.counter + 1, "none", TRUE, closed)

\* lines 59-65: the session limit, the eviction (an await), the creation
LimitOutcome(p, key, closed, closeThrows, createFails) ==
    IF Cardinality(DOMAIN p.sessions) >= poConfig.maxSessions
    THEN LET o == OldestSession(p, now) IN
         IF o = 0 THEN Answer(p, 0, "capacity", FALSE, closed)
         ELSE Suspended(CloseIn(p, o, closeThrows), "create", closed \cup {o})
    ELSE CreateOutcome(p, key, closed, createFails)

\* lines 44-57: reuse a valid pooled session, else close the stale one (an await)
StartOutcome(p, key, closeThrows, createFails) ==
    LET k == SessionKeyOf[key] IN
    IF k \in DOMAIN p.sessions /\ isSessionValid(p.sessions[k], now)
    THEN Answer([p EXCEPT !.sessions[k].lastUsed = now], p.sessions[k].id, "none", FALSE, {})
    ELSE IF k \in DOMAIN p.sessions
    THEN Suspended(CloseIn(p, p.sessions[k].id, closeThrows), "limit", {p.sessions[k].id})
    ELSE LimitOutcome(p, key, {}, closeThrows, createFails)

\* What the caller could know of the pool when it made the call.
PreOf(key) ==
    LET k == SessionKeyOf[key]
        pooled == k \in DOMAIN sessions
    IN  [pooled |-> pooled,
         id |-> IF pooled THEN sessions[k].id ELSE 0,
         idle |-> IF pooled THEN now - sessions[k].lastUsed ELSE 0,
         requestCount |-> IF pooled THEN sessions[k].requestCount ELSE 0,
         released |-> pooled /\ sessions[k].id \notin borrowed,
         size |-> Cardinality(DOMAIN sessions),
         allBorrowed |-> IdsIn(PoolNow) \subseteq borrowed]

\* One stretch of a getSession call has run: publish the pool, and the answer or
\* the suspended call; maxIds bounds the ids handed out.
SettleWithin(maxIds, out, key, pre, rest) ==
    /\ out.pool.counter <= maxIds
    /\ SetPool(out.pool)
    /\ IF out.done
       THEN /\ calls' = rest
            /\ poLast' = [op |-> "get", key |-> SessionKeyOf[key], pre |-> pre,
                          result |-> out.result, err |-> out.err, opened |-> out.opened,
                          closed |-> out.closed]
            /\ borrowed' = (borrowed \ out.closed) \cup (IF out.result = 0 THEN {} ELSE {out.result})
       ELSE /\ calls' = Append(rest, [pc |-> out.pc, key |-> key, pre |-> pre,
                                      closed |-> out.closed])
            /\ poLast' = [op |-> "none"]
            /\ borrowed' = borrowed \ out.closed
    /\ UNCHANGED <<now, poConfig, rlVars, caVars, trVars, orVars>>

\* The callers of the pool; each awaits its own call, so that at most one call a
\* caller is in flight.
Callers == {"c1"}

\* getSession(key) is called by one of the callers, up to its first await
getSessionAmong(callers, maxIds, key, closeThrows, createFails) ==
    /\ Len(calls) < Cardinality(callers)
    /\ SettleWithin(maxIds, StartOutcome(PoolNow, key, closeThrows, createFails), key,
                    PreOf(key), calls)

\* getSession(key) is called
getSession(key, closeThrows, createFails) ==
    getSessionAmong(Callers, MaxIds, key, closeThrows, createFails)

WithoutCall(i) == SubSeq(calls, 1, i - 1) \o SubSeq(calls, i + 1, Len(calls))

\* a suspended getSession call goes on after its await
getSessionResumeWithin(maxIds, i, closeThrows, createFails) ==
    LET c == calls[i]
        out == IF c.pc = "limit"
               THEN LimitOutcome(PoolNow, c.key, c.closed, closeThrows, createFails)
               ELSE CreateOutcome(PoolNow, c.key, c.closed, createFails)
    IN  SettleWithin(maxIds, out, c.key, c.pre, WithoutCall(i))

getSessionResume(i, closeThrows, createFails) ==
    getSessionResumeWithin(MaxIds, i, closeThrows, createFails)

PoDone == [op |-> "none"]

\* Mutant: releasing a session closes it.
releaseSession_Closes(id) ==
    /\ SetPool(CloseIn(PoolNow, id, FALSE))
    /\ borrowed' = borrowed \ {id}
    /\ poLast' = PoDone
    /\ UNCHANGED <<now, poConfig, calls, rlVars, caVars, trVars, orVars>>

\* closeSession catches what close() of the handle throws and raises nothing itself
closeSessionRaises(closeThrows) == FALSE

releaseSession(id) ==
    LET ks == KeysWithId(PoolNow, id) IN
    /\ sessions' = IF ks = <<>> THEN sessions
                   ELSE [sessions EXCEPT ![ks[1]].lastUsed = now, ![ks[1]].active = FALSE]
    /\ borrowed' = borrowed \ {id}
    /\ poLast' = PoDone
    /\ UNCHANGED <<now, poConfig, sessionOrder, sessionIdCounter, handles, calls, rlVars, caVars, trVars, orVars>>

closeSession(id, closeThrows) ==
    /\ SetPool(CloseIn(PoolNow, id, closeThrows))
    /\ borrowed' = borrowed \ {id}
    /\ poLast' = PoDone
    /\ UNCHANGED <<now, poConfig, calls, rlVars, caVars, trVars, orVars>>

recordRequest(id) ==
    LET ks == KeysWithId(PoolNow, id) IN
    /\ ks # <<>> => sessions[ks[1]].requestCount <= poConfig.maxRequestsPerSession
    /\ sessions' = IF ks = <<>> THEN sessions
                   ELSE [sessions EXCEPT ![ks[1]].requestCount = @ + 1, ![ks[1]].lastUsed = now]
    /\ poLast' = PoDone
    /\ UNCHANGED <<now, poConfig, sessionOrder, sessionIdCounter, handles, calls, borrowed,
                   rlVars, caVars, trVars, orVars>>

\* Mutant: the sweep looks at the idle time only.
SweepExpired_IdleOnly(p, t) ==
    {p.sessions[k].id : k \in {x \in DOMAIN p.sessions :
        (t - p.sessions[x].lastUsed) > poConfig.sessionTimeout}}

\* cleanup(): the sweep of the interval timer
SweepExpired(p, t) ==
    {p.sessions[k].id : k \in {x \in DOMAIN p.sessions :
        \/ ~isSessionValid(p.sessions[x], t)
        \/ (t - p.sessions[x].lastUsed) > poConfig.sessionTimeout
        \/ p.sessions[x].requestCount > poConfig.maxRequestsPerSession}}

RECURSIVE CloseAllIn(_, _, _)
CloseAllIn(p, ids, closeThrows) ==
    IF ids = {} THEN p
    ELSE LET id == CHOOSE x \in ids : TRUE
         IN  CloseAllIn(CloseIn(p, id, closeThrows), ids \ {id}, closeThrows)

poCleanup(closeThrows) ==
    /\ SetPool(CloseAllIn(PoolNow, SweepExpired(PoolNow, now), closeThrows))
    /\ borrowed' = borrowed \ SweepExpired(PoolNow, now)
    /\ poLast' = PoDone
    /\ UNCHANGED <<now, poConfig, calls, rlVars, caVars, trVars, orVars>>

PoInit ==
    /\ poConfig \in PoConfigs
    /\ sessions = <<>>
    /\ sessionOrder = <<>>
    /\ sessionIdCounter = 0
    /\ handles = <<>>
    /\ calls = <<>>
    /\ borrowed = {}
    /\ poLast = PoDone

PoNext ==
    \/ Tick(PoMaxTime) /\ UNCHANGED <<rlVars, caVars, poVars, trVars, orVars>>
    \/ \E key \in SessionKeys, ct \in BOOLEAN, cf \in BOOLEAN : getSession(key, ct, cf)
    \/ \E i \in 1..Len(calls), ct \in BOOLEAN, cf \in BOOLEAN : getSessionResume(i, ct, cf)
    \/ \E id \in 1..sessionIdCounter : releaseSession(id)
    \/ \E id \in 1..sessionIdCounter, ct \in BOOLEAN : closeSession(id, ct)
    \/ \E id \in 1..sessionIdCounter : recordRequest(id)
    \/ \E ct \in BOOLEAN : poCleanup(ct)

InitPool ==
    /\ now = 0
    /\ OrIdle
    /\ TrIdle
    /\ RlIdle
    /\ CaIdle
    /\ PoInit

SpecPool == InitPool /\ [][PoNext]_vars

(***************************************************************************)
(* Claims about the rate limiter                                           *)
(***************************************************************************)
\* The calls answered allowed for key k whose times lie in (now - window, now].
AllowedInWindow(k) == FilterRequests(rlAllowed[k], now - rlConfig.windowSizeMs)

\* C1: for every device, the number of checkRateLimit calls answered allowed
\* within any window of length windowSizeMs (taken half-open, (t - W, t]) is at
\* most maxRequestsPerWindow, as long as the device is not reset.
C1_WindowCeiling ==
    \A k \in RlKeys : Len(AllowedInWindow(k)) <= rlConfig.maxRequestsPerWindow

C3_SizeWithinCeiling ==
    caLast.op = "set" => Cardinality(DOMAIN cache) <= caConfig.maxCacheSize

\* C4: getCachedValue returns the stored value only while now - creation < ttl;
\* with now - creation >= ttl it returns null and removes the entry.
C4_StaleNeverReturned ==
    (caLast.op = "get" /\ caLast.had) =>
        IF caLast.age < caLast.ttl
        THEN caLast.result = caLast.stored
        ELSE caLast.result = None /\ caLast.key \notin DOMAIN cache

(***************************************************************************)
(* Claims about the session pool                                           *)
(***************************************************************************)

\* C5: when getSession is called for a key that is not pooled while the pool
\* holds maxSessions sessions, all of them acquired and not released, the call
\* fails with the capacity error and closes none of the sessions.
C5_HeldNeverEvicted ==
    (/\ poLast.op = "get"
     /\ ~poLast.pre.pooled
     /\ poLast.pre.size = poConfig.maxSessions
     /\ poLast.pre.allBorrowed) =>
        (poLast.err = "capacity" /\ poLast.closed = {})

\* C6: a getSession call for a key whose session is pooled, was last used no
\* longer than sessionTimeout ago and has served fewer than
\* maxRequestsPerSession requests returns that session, opens no handle and
\* closes none, whether or not the session was released in between.
C6_ReuseWhileFresh ==
    (/\ poLast.op = "get"
     /\ poLast.pre.pooled
     /\ poLast.pre.idle <= poConfig.sessionTimeout
     /\ poLast.pre.requestCount < poConfig.maxRequestsPerSession) =>
        (/\ poLast.result = poLast.pre.id
         /\ ~poLast.opened
         /\ poLast.closed = {}
         /\ poLast.err = "none")

\* A released session is acquired again when it has been idle for exactly the
\* timeout.
C6_Witness ==
    /\ poLast.op = "get"
    /\ poLast.pre.pooled
    /\ poLast.pre.released
    /\ poLast.pre.idle = poConfig.sessionTimeout
    /\ poLast.pre.requestCount < poConfig.maxRequestsPerSession
    /\ poLast.result = poLast.pre.id
    /\ ~poLast.opened

(***************************************************************************)
(* Trap listeners: the source filter (isSourceAllowed, and its copy        *)
(* isAllowedSource in SnmpTrapTrigger.trigger)                             *)
(***************************************************************************)
IsDigit(c) == c \in {"0", "1", "2", "3", "4", "5", "6", "7", "8", "9"}
DigitValue(c) == CHOOSE d \in 0..9 : DigitChar(d) = c

\* String.prototype.split with a separator of one character
RECURSIVE SplitFrom(_, _, _)
SplitFrom(s, sep, cur) ==
    IF s = <<>> THEN <<cur>>
    ELSE IF Head(s) = sep THEN <<cur>> \o SplitFrom(Tail(s), sep, <<>>)
    ELSE SplitFrom(Tail(s), sep, Append(cur, Head(s)))

Split(s, sep) == SplitFrom(s, sep, <<>>)

RECURSIVE DigitsValue(_, _)
DigitsValue(s, acc) ==
    IF s # <<>> /\ IsDigit(Head(s))
    THEN DigitsValue(Tail(s), acc * 10 + DigitValue(Head(s)))
    ELSE acc

\* parseInt(str, 10): <<>> stands for NaN, <<n>> for the number n
NaN == <<>>
parseInt(str) ==
    LET s == TrimStart(str)
        signed == s # <<>> /\ Head(s) \in {"-", "+"}
        body == IF signed THEN Tail(s) ELSE s
    IN  IF body = <<>> \/ ~IsDigit(Head(body)) THEN NaN
        ELSE IF signed /\ Head(s) = "-" THEN <<0 - DigitsValue(body, 0)>>
        ELSE <<DigitsValue(body, 0)>>

\* A 32-bit unsigned number is the pair of its 16-bit halves; -1 has a negative
\* first half.
MinusOne == <<-1, 0>>
IsNegative(x) == x[1] < 0

ipToLong(ip) ==
    LET strs == Split(ip, ".")
        parts == [i \in 1..Len(strs) |-> parseInt(strs[i])]
    IN  IF \/ Len(parts) # 4
           \/ \E i \in 1..Len(parts) : parts[i] = NaN \/ parts[i][1] < 0 \/ parts[i][1] > 255
        THEN MinusOne
        ELSE <<parts[1][1] * 256 + parts[2][1], parts[3][1] * 256 + parts[4][1]>>

RECURSIVE Pow2(_)
Pow2(k) == IF k = 0 THEN 1 ELSE 2 * Pow2(k - 1)

\* (x << k) >>> 0, 0 <= k <= 31
ShiftLeft(x, k) ==
    IF k < 16
    THEN <<(x[1] * Pow2(k) + (x[2] * Pow2(k)) \div Half) % Half, (x[2] * Pow2(k)) % Half>>
    ELSE <<(x[2] * Pow2(k - 16)) % Half, 0>>

RECURSIVE BitAnd(_, _)
BitAnd(a, b) ==
    IF a = 0 \/ b = 0 THEN 0
    ELSE (a % 2) * (b % 2) + 2 * BitAnd(a \div 2, b \div 2)

And32(x, y) == <<BitAnd(x[1], y[1]), BitAnd(x[2], y[2])>>

\* ~0
AllOnes == <<Half - 1, Half - 1>>

\* Mutant: the mask of prefix 0 is computed by the shift, whose count 32 wraps to 0.
maskOf_Shifted(prefix) == ShiftLeft(AllOnes, (32 - prefix) % 32)

\* prefix === 0 ? 0 : (~0 << (32 - prefix)) >>> 0
maskOf(prefix) ==
    IF prefix = 0 THEN <<0, 0>> ELSE ShiftLeft(AllOnes, (32 - prefix) % 32)

\* the body of the loop over the rules
RuleMatches(sourceAddress, src, rule) ==
    LET trimmed == Trim(rule) IN
    IF trimmed = <<>> THEN FALSE
    ELSE IF "/" \in Range(trimmed)
    THEN LET seg == Split(trimmed, "/")
             baseLong == ipToLong(seg[1])
             prefix == parseInt(seg[2])
         IN  IF IsNegative(baseLong) \/ prefix = NaN \/ prefix[1] < 0 \/ prefix[1] > 32
             THEN FALSE
             ELSE And32(src, maskOf(prefix[1])) = And32(baseLong, maskOf(prefix[1]))
    ELSE sourceAddress = trimmed

isSourceAllowed(sourceAddress, allowedSources) ==
    IF allowedSources = <<>> THEN TRUE
    ELSE IF IsNegative(ipToLong(sourceAddress)) THEN FALSE
    ELSE \E i \in 1..Len(allowedSources) :
            RuleMatches(sourceAddress, ipToLong(sourceAddress), allowedSources[i])

\* SnmpTrapTrigger.trigger: the copy of the filter in the closure of the handler
isAllowedSource(addr, allowedSources) ==
    IF Len(allowedSources) = 0 THEN TRUE
    ELSE IF IsNegative(ipToLong(addr)) THEN FALSE
    ELSE \E i \in 1..Len(allowedSources) :
            RuleMatches(addr, ipToLong(addr), allowedSources[i])

\* .map(s => s.trim()).filter(s => s)
RECURSIVE TrimmedNonEmpty(_)
TrimmedNonEmpty(strs) ==
    IF strs = <<>> THEN <<>>
    ELSE IF Trim(Head(strs)) = <<>> THEN TrimmedNonEmpty(Tail(strs))
    ELSE <<Trim(Head(strs))>> \o TrimmedNonEmpty(Tail(strs))

\* options.allowedSources ? options.allowedSources.split(',')... : []
ParseAllowedSources(str) ==
    IF str = <<>> THEN <<>> ELSE TrimmedNonEmpty(Split(str, ","))

(***************************************************************************)
(* Trap listeners: what the callers pass                                   *)
(***************************************************************************)
\* An address is the tuple of its four octets; the code receives its text.
Dotted(o) ==
    Decimal(o[1]) \o <<".">> \o Decimal(o[2]) \o <<".">> \o Decimal(o[3]) \o <<".">> \o Decimal(o[4])

\* An entry of allowedSources: its text, and what the text denotes.
AddrRule(o) == [kind |-> "addr", base |-> o, prefix |-> 32, text |-> Dotted(o)]
PaddedRule(o) == [kind |-> "addr", base |-> o, prefix |-> 32, text |-> <<" ">> \o Dotted(o) \o <<" ">>]
CidrRule(o, n) == [kind |-> "cidr", base |-> o, prefix |-> n, text |-> Dotted(o) \o <<"/">> \o Decimal(n)]
OtherRule(t) == [kind |-> "other", base |-> <<0, 0, 0, 0>>, prefix |-> 0, text |-> t]
BlankRule == [kind |-> "blank", base |-> <<0, 0, 0, 0>>, prefix |-> 0, text |-> <<" ">>]

Sources == { <<10, 5, 5, 5>>, <<192, 168, 1, 1>>, <<127, 0, 0, 1>> }

FilterRules ==
    { CidrRule(<<10, 0, 0, 0>>, 8), CidrRule(<<0, 0, 0, 0>>, 0), CidrRule(<<192, 168, 1, 0>>, 24),
      CidrRule(<<192, 168, 1, 1>>, 32), CidrRule(<<10, 0, 0, 0>>, 33), CidrRule(<<126, 0, 0, 0>>, 7),
      CidrRule(<<128, 0, 0, 0>>, 1), AddrRule(<<10, 5, 5, 5>>), PaddedRule(<<192, 168, 1, 1>>),
      OtherRule(<<"b", "a", "d">>), BlankRule }

RECURSIVE SetToSeq(_)
SetToSeq(S) ==
    IF S = {} THEN <<>>
    ELSE LET x == CHOOSE y \in S : TRUE IN <<x>> \o SetToSeq(S \ {x})

FilterLists == { SetToSeq(S) : S \in { T \in SUBSET FilterRules : Cardinality(T) <= MaxRules } }

TrapLists == { <<CidrRule(<<10, 0, 0, 0>>, 8)>>, <<AddrRule(<<192, 168, 1, 1>>)>> }

\* options.allowedSources of snmpTrapReceiver: the texts
TextsOf(list) == [i \in 1..Len(list) |-> list[i].text]

\* options.allowedSources of the trigger node: one string, entries separated by commas
RECURSIVE JoinComma(_)
JoinComma(texts) ==
    IF texts = <<>> THEN <<>>
    ELSE IF Len(texts) = 1 THEN texts[1]
    ELSE texts[1] \o <<",">> \o JoinComma(Tail(texts))

\* options.port: 0 stands for an option that is not set
PortInputs == {0, 162, 65536}

\* lengths of the datagrams
MsgLengths == {4, 12}

\* datagrams sent to the trigger: the length, the version octet msg[1], and the
\* first run of printable octets in msg[2 .. min(length - 10, 50) - 1] that an
\* unprintable octet ends ("" when there is none)
TrapDatagrams ==
    { [length |-> 4, version |-> 1, text |-> ""],
      [length |-> 24, version |-> 1, text |-> "private"] }

\* options.filterCommunity and options.filterOid; the empty text is an option
\* that is not set
TriggerFilters ==
    { [filterCommunity |-> "", filterOid |-> <<>>],
      [filterCommunity |-> "public", filterOid |-> <<>>],
      [filterCommunity |-> "private", filterOid |-> <<>>],
      [filterCommunity |-> "", filterOid |-> <<"1", ".", "3">>] }

\* The answers of the two filters for the callers' lists, computed once.
AllLists == FilterLists \cup TrapLists

SourceAllowed ==
    [texts \in {TextsOf(list) : list \in AllLists} |->
        [src \in Sources |-> isSourceAllowed(Dotted(src), texts)]]

TriggerSources == [list \in AllLists |-> ParseAllowedSources(JoinComma(TextsOf(list)))]

AllowedSource ==
    [texts \in {TriggerSources[list] : list \in AllLists} |->
        [src \in Sources |-> isAllowedSource(Dotted(src), texts)]]

(***************************************************************************)
(* Trap listeners: snmpTrapReceiver (batch mode) and stopTrapReceiver      *)
(***************************************************************************)
\* options.port || 162
PortOf(p) == IF p = 0 THEN 162 ELSE p

\* The operating system binds one socket to a port (no reuseAddr is asked for).
PortFree(port) ==
    /\ \A i \in 1..Len(trapListeners) :
          trapListeners[i].port = port => trapListeners[i].socket # "bound"
    /\ ~(trigger.state = "bound" /\ trigger.port = port)

\* A listener of this process was started on the port and its socket is not closed.
Owned(port) ==
    \E i \in 1..Len(trapListeners) :
        trapListeners[i].port = port /\ trapListeners[i].socket \in {"binding", "bound"}

NewListener(port, allowedSources) ==
    [port |-> port, allowedSources |-> allowedSources, isListening |-> FALSE, trapCount |-> 0,
     receivedTraps |-> <<>>, socket |-> "binding", timer |-> "pending", promise |-> "pending",
     result |-> <<>>]

TrapFrame == UNCHANGED <<now, allowedInput, rlVars, caVars, poVars, orVars>>

snmpTrapReceiver(portOption) ==
    LET port == PortOf(portOption) IN
    /\ Len(trapListeners) < MaxListeners
    /\ IF port < 1 \/ port > 65535 \/ port \in DOMAIN activeTrapListeners
       THEN /\ trLast' = [op |-> "start", port |-> port, owned |-> Owned(port),
                          rejected |-> TRUE, listener |-> 0]
            /\ UNCHANGED trapListeners
       ELSE /\ trapListeners' = Append(trapListeners, NewListener(port, TextsOf(allowedInput)))
            /\ trLast' = [op |-> "start", port |-> port, owned |-> Owned(port),
                          rejected |-> FALSE, listener |-> Len(trapListeners) + 1]
    /\ UNCHANGED <<activeTrapListeners, trigger>>
    /\ TrapFrame

Settled(promise, outcome) == IF promise = "pending" THEN outcome ELSE promise

\* Mutant: cleanup() leaves the timer alone.
CleanedListeners_KeepsTimer(i, timerState) ==
    [trapListeners EXCEPT ![i].socket = "closed",
                          ![i].isListening = FALSE]

\* cleanup() of listener i; timerState is what becomes of a pending timer
CleanedListeners(i, timerState) ==
    [trapListeners EXCEPT ![i].timer = IF @ = "pending" THEN timerState ELSE @,
                          ![i].socket = "closed",
                          ![i].isListening = FALSE]

CleanedRegistry(i) == Drop(activeTrapListeners, {trapListeners[i].port})

\* server.bind completes: the listening handler, or the error handler
BindCompletes(i) ==
    /\ trapListeners[i].socket = "binding"
    /\ IF PortFree(trapListeners[i].port)
       THEN /\ trapListeners' = [trapListeners EXCEPT ![i].socket = "bound", ![i].isListening = TRUE]
            /\ activeTrapListeners' = Put(activeTrapListeners, trapListeners[i].port, i)
            /\ trLast' = [op |-> "bind", listener |-> i, bound |-> TRUE]
       ELSE /\ trapListeners' = [CleanedListeners(i, "cleared") EXCEPT
                                    ![i].promise = Settled(@, "rejected")]
            /\ activeTrapListeners' = CleanedRegistry(i)
            /\ trLast' = [op |-> "bind", listener |-> i, bound |-> FALSE]
    /\ UNCHANGED trigger
    /\ TrapFrame

\* the error handler of a bound socket: cleanup(), then reject
SocketError(i) ==
    /\ trapListeners[i].socket = "bound"
    /\ trapListeners' = [CleanedListeners(i, "cleared") EXCEPT
                            ![i].promise = Settled(@, "rejected")]
    /\ activeTrapListeners' = CleanedRegistry(i)
    /\ trLast' = [op |-> "error", listener |-> i]
    /\ UNCHANGED trigger
    /\ TrapFrame

\* Mutant: the timeout resolves with an empty list.
TimerFires_EmptyList(i) ==
    /\ trapListeners[i].timer = "pending"
    /\ trapListeners' = [CleanedListeners(i, "fired") EXCEPT ![i].promise = Settled(@, "resolved")]
    /\ activeTrapListeners' = CleanedRegistry(i)
    /\ trLast' = [op |-> "timer", listener |-> i]
    /\ UNCHANGED trigger
    /\ TrapFrame

\* the callback of setTimeout: cleanup(), then resolve(receivedTraps)
TimerFires(i) ==
    /\ trapListeners[i].timer = "pending"
    /\ trapListeners' = [CleanedListeners(i, "fired") EXCEPT
                            ![i].promise = Settled(@, "resolved"),
                            ![i].result = IF trapListeners[i].promise = "pending"
                                          THEN trapListeners[i].receivedTraps ELSE @]
    /\ activeTrapListeners' = CleanedRegistry(i)
    /\ trLast' = [op |-> "timer", listener |-> i]
    /\ UNCHANGED trigger
    /\ TrapFrame

\* close() of a socket that is closed already throws
stopTrapReceiver(targetPort) ==
    /\ IF targetPort \notin DOMAIN activeTrapListeners
       THEN /\ trLast' = [op |-> "stop", port |-> targetPort, listener |-> 0,
                          wasListening |-> FALSE, result |-> FALSE]
            /\ UNCHANGED <<trapListeners, activeTrapListeners>>
       ELSE LET i == activeTrapListeners[targetPort] IN
            IF trapListeners[i].socket = "closed"
            THEN /\ trLast' = [op |-> "stop", port |-> targetPort, listener |-> i,
                               wasListening |-> trapListeners[i].isListening, result |-> FALSE]
                 /\ UNCHANGED <<trapListeners, activeTrapListeners>>
            ELSE /\ trapListeners' = [trapListeners EXCEPT ![i].socket = "closed",
                                                           ![i].isListening = FALSE]
                 /\ activeTrapListeners' = Drop(activeTrapListeners, {targetPort})
                 /\ trLast' = [op |-> "stop", port |-> targetPort, listener |-> i,
                               wasListening |-> trapListeners[i].isListening, result |-> TRUE]
    /\ UNCHANGED trigger
    /\ TrapFrame

\* parseSnmpMessage raises on a buffer shorter than 10 bytes
parseSnmpMessageRaises(length) == length < 10

MessageSeen(mode, i, source, accepted, raised, records, delivered, propagated) ==
    [op |-> "message", mode |-> mode, listener |-> i, source |-> source, accepted |-> accepted,
     before |-> IF mode = "batch" THEN trapListeners[i].trapCount ELSE Len(trigger.emitted),
     raised |-> raised, records |-> records, delivered |-> delivered, propagated |-> propagated]

\* processTrapPdu: the record of a datagram. The parsed pdu is the same for every
\* datagram; the record carries the sender's address and port.
processTrapPdu(sourceInfo) == [source |-> sourceInfo]

\* the message handler of a batch listener
BatchMessage(i, source, senderPort, length) ==
    LET accepted == SourceAllowed[trapListeners[i].allowedSources][source]
        raised == accepted /\ parseSnmpMessageRaises(length)
        stored == accepted /\ ~raised
    IN  /\ trapListeners[i].socket = "bound"
        /\ trapListeners[i].trapCount < MaxTraps
        /\ trapListeners' = IF stored
                            THEN [trapListeners EXCEPT
                                     ![i].receivedTraps =
                                         Append(@, processTrapPdu([address |-> source,
                                                                   port |-> senderPort])),
                                     ![i].trapCount = @ + 1]
                            ELSE trapListeners
        /\ trLast' = MessageSeen("batch", i, source, accepted, raised,
                                 IF stored THEN 1 ELSE 0, 0, FALSE)
                      @@ [senderPort |-> senderPort]
        /\ UNCHANGED <<activeTrapListeners, trigger>>
        /\ TrapFrame

(***************************************************************************)
(* Trap listeners: SnmpTrapTrigger.trigger (continuous mode)               *)
(***************************************************************************)
\* the port parameter of the node
TriggerPort == PortOf(0)

trigger_start(filters) ==
    /\ trigger.state = "none"
    /\ trigger' = [state |-> "binding", port |-> TriggerPort,
                   allowedSources |-> TriggerSources[allowedInput],
                   filters |-> filters, emitted |-> <<>>]
    /\ trLast' = [op |-> "trigger"]
    /\ UNCHANGED <<activeTrapListeners, trapListeners>>
    /\ TrapFrame

\* server.bind completes: the listening handler, or the error handler, which throws
TriggerBindCompletes ==
    /\ trigger.state = "binding"
    /\ trigger' = [trigger EXCEPT !.state = IF PortFree(trigger.port) THEN "bound" ELSE "failed"]
    /\ trLast' = [op |-> "triggerBind", bound |-> PortFree(trigger.port)]
    /\ UNCHANGED <<activeTrapListeners, trapListeners>>
    /\ TrapFrame

\* parseTrapMessage catches what its parsing raises
parseTrapMessageRaises(length) == FALSE

\* parseTrapMessage: the record built from a datagram. The community is
\* trapData.trap.community, "public" unless the scan finds another text; the
\* record has no varbinds.
parseTrapMessage(msg) ==
    LET version == IF msg.length > 10
                   THEN (IF msg.version = 0 THEN "v1"
                         ELSE IF msg.version = 1 THEN "v2c"
                         ELSE IF msg.version = 3 THEN "v3" ELSE "v2c")
                   ELSE "v2c"
        community == IF version # "v3" /\ msg.length > 20 /\ msg.text # ""
                     THEN msg.text ELSE "public"
    IN  [trap |-> [version |-> version, community |-> community],
         varbinds |-> <<>>,
         summary |-> [varbindCount |-> 0, version |-> version, messageSize |-> msg.length]]

\* trapData[name]: <<value>>, or <<>> for a property the record does not have
Property(trapData, name) == IF name \in DOMAIN trapData THEN <<trapData[name]>> ELSE <<>>

\* String.prototype.startsWith
startsWith(text, prefix) ==
    /\ Len(prefix) <= Len(text)
    /\ SubSeq(text, 1, Len(prefix)) = prefix

\* varbinds.some(varbind => varbind.oid.startsWith(filterOid))
hasMatchingOid(varbinds, filterOid) ==
    \E i \in 1..Len(varbinds) : startsWith(varbinds[i].oid, filterOid)

\* Mutant: the identifier filter is not applied.
FilteredOut_NoOidFilter(filters, trapData) ==
    filters.filterCommunity # "" /\ Property(trapData, "community") # <<filters.filterCommunity>>

\* the content filters of the message handler: the community filter reads
\* trapData.community, the identifier filter reads trapData.varbinds
FilteredOut(filters, trapData) ==
    \/ filters.filterCommunity # "" /\ Property(trapData, "community") # <<filters.filterCommunity>>
    \/ /\ filters.filterOid # <<>>
       /\ Property(trapData, "varbinds") # <<>>
       /\ ~hasMatchingOid(trapData.varbinds, filters.filterOid)

\* the message handler of the trigger; this.emit may raise
TriggerMessage(source, msg, emitRaises, errorEmitRaises) ==
    LET accepted == AllowedSource[trigger.allowedSources][source]
        trapData == parseTrapMessage(msg)
        emitting == /\ accepted
                    /\ ~parseTrapMessageRaises(msg.length)
                    /\ ~FilteredOut(trigger.filters, trapData)
        raised == (accepted /\ parseTrapMessageRaises(msg.length)) \/ (emitting /\ emitRaises)
        item == IF raised THEN (IF errorEmitRaises THEN <<>> ELSE <<"error">>)
                ELSE IF emitting THEN <<"trap">> ELSE <<>>
    IN  /\ trigger.state = "bound"
        /\ Len(trigger.emitted) < MaxTraps
        /\ trigger' = [trigger EXCEPT !.emitted = @ \o item]
        /\ trLast' = MessageSeen("continuous", 0, source, accepted, raised,
                                 IF emitting /\ ~raised THEN 1 ELSE 0, Len(item),
                                 raised /\ errorEmitRaises)
                      @@ [community |-> trapData.trap.community,
                          varbinds |-> trapData.varbinds,
                          item |-> item]
        /\ UNCHANGED <<activeTrapListeners, trapListeners>>
        /\ TrapFrame

closeFunction ==
    /\ trigger.state \in {"binding", "bound"}
    /\ trigger' = [trigger EXCEPT !.state = "closed"]
    /\ trLast' = [op |-> "close"]
    /\ UNCHANGED <<activeTrapListeners, trapListeners>>
    /\ TrapFrame

TrInit ==
    /\ activeTrapListeners = <<>>
    /\ trapListeners = <<>>
    /\ trigger = NoTrigger
    /\ trLast = [op |-> "none"]

TrapNext ==
    \/ \E p \in PortInputs : snmpTrapReceiver(p)
    \/ \E i \in 1..Len(trapListeners) : BindCompletes(i)
    \/ \E i \in 1..Len(trapListeners) : TimerFires(i)
    \/ \E i \in 1..Len(trapListeners) : SocketError(i)
    \/ \E p \in {PortOf(0)} : stopTrapReceiver(p)
    \/ \E i \in 1..Len(trapListeners), src \in Sources, n \in MsgLengths :
          BatchMessage(i, src, 10001, n)
    \/ \E f \in TriggerFilters : trigger_start(f)
    \/ TriggerBindCompletes
    \/ \E src \in Sources, msg \in TrapDatagrams, er \in BOOLEAN, eer \in BOOLEAN :
          TriggerMessage(src, msg, er, eer)
    \/ closeFunction

InitTrap ==
    /\ now = 0
    /\ OrIdle
    /\ RlIdle
    /\ CaIdle
    /\ PoIdle
    /\ allowedInput \in TrapLists
    /\ TrInit

SpecTrap == InitTrap /\ [][TrapNext]_vars

\* One listener of each mode, for every filter list.
FilterNext ==
    \/ \E p \in PortInputs : trapListeners = <<>> /\ snmpTrapReceiver(p)
    \/ \E i \in 1..Len(trapListeners) : BindCompletes(i)
    \/ \E i \in 1..Len(trapListeners), src \in Sources, n \in MsgLengths :
          BatchMessage(i, src, 10001, n)
    \/ \E f \in TriggerFilters : trigger_start(f)
    \/ TriggerBindCompletes
    \/ \E src \in Sources, msg \in TrapDatagrams, er \in BOOLEAN, eer \in BOOLEAN :
          TriggerMessage(src, msg, er, eer)

InitFilter ==
    /\ now = 0
    /\ OrIdle
    /\ RlIdle
    /\ CaIdle
    /\ PoIdle
    /\ allowedInput \in FilterLists
    /\ TrInit

SpecFilter == InitFilter /\ [][FilterNext]_vars

\* Batch listeners alone, with datagrams from several sender ports.
BatchCallers == {"c1", "c2"}
SenderPorts == {10001, 10002}

BatchNext ==
    \/ \E p \in PortInputs : Len(trapListeners) < Cardinality(BatchCallers) /\ snmpTrapReceiver(p)
    \/ \E i \in 1..Len(trapListeners) : BindCompletes(i)
    \/ \E i \in 1..Len(trapListeners) : TimerFires(i)
    \/ \E i \in 1..Len(trapListeners) : SocketError(i)
    \/ \E p \in {PortOf(0)} : stopTrapReceiver(p)
    \/ \E i \in 1..Len(trapListeners), src \in Sources, sp \in SenderPorts, n \in MsgLengths :
          BatchMessage(i, src, sp, n)

SpecBatch == InitTrap /\ [][BatchNext]_vars

\* The trigger alone, for every filter list.
TriggerNext ==
    \/ \E f \in TriggerFilters : trigger_start(f)
    \/ TriggerBindCompletes
    \/ \E src \in Sources, msg \in TrapDatagrams, er \in BOOLEAN, eer \in BOOLEAN :
          TriggerMessage(src, msg, er, eer)
    \/ closeFunction

SpecTrigger == InitFilter /\ [][TriggerNext]_vars

(***************************************************************************)
(* Claims about the trap listeners                                         *)
(***************************************************************************)

\* C7: at most one batch listener is in the listening state on a port, and a
\* start for a port on which a listener of this process was started and has not
\* ended is rejected, also while that listener's bind is still in progress.
C7_OneListenerPerPort ==
    /\ \A i, j \in 1..Len(trapListeners) :
          (i # j /\ trapListeners[i].port = trapListeners[j].port) =>
              ~(trapListeners[i].isListening /\ trapListeners[j].isListening)
    /\ (trLast.op = "start" /\ trLast.owned) => trLast.rejected

\* What the claim says of an entry: the address itself, or a block a/n whose
\* top n bits are those of the source.
BitOf(o, i) == (o[((i - 1) \div 8) + 1] \div (2 ^ (7 - ((i - 1) % 8)))) % 2

TopBitsEqual(a, s, n) == \A i \in 1..n : BitOf(a, i) = BitOf(s, i)

EntryAdmits(rule, s) ==
    \/ rule.kind = "addr" /\ rule.base = s
    \/ rule.kind = "cidr" /\ rule.prefix \in 0..32 /\ TopBitsEqual(rule.base, s, rule.prefix)

NotBlank(rule) == rule.kind # "blank"

\* The filter list of a listener: the entries of the option; the trigger node
\* reads them from one comma-separated field, where a blank is no entry.
ListOf(mode) == IF mode = "batch" THEN allowedInput ELSE SelectSeq(allowedInput, NotBlank)

ClaimAccepts(s, list) == list = <<>> \/ \E i \in 1..Len(list) : EntryAdmits(list[i], s)

CountNow ==
    IF trLast.mode = "batch" THEN trapListeners[trLast.listener].trapCount
    ELSE Len(trigger.emitted)

C9_StopReleasesEverything ==
    (trLast.op = "stop" /\ trLast.wasListening) =>
        /\ trapListeners[trLast.listener].timer # "pending"
        /\ trapListeners[trLast.listener].socket = "closed"
        /\ trLast.port \notin DOMAIN activeTrapListeners

\* C10: in either mode a datagram whose parsing or processing raises leaves no
\* trap record, delivers nothing to the sink, propagates no error and leaves
\* the listener listening.
C10_RaiseIsContained ==
    (trLast.op = "message" /\ trLast.raised) =>
        /\ trLast.records = 0
        /\ trLast.delivered = 0
        /\ ~trLast.propagated
        /\ CountNow = trLast.before
        /\ IF trLast.mode = "batch" THEN trapListeners[trLast.listener].socket = "bound"
           ELSE trigger.state = "bound"

(***************************************************************************)
(* Session pool: what can be read without borrowing a session              *)
(***************************************************************************)
SessionsInOrder == [i \in 1..Len(sessionOrder) |-> sessions[sessionOrder[i]]]

ActiveCount == Cardinality({k \in DOMAIN sessions : sessions[k].active})

\* getStatus(); the request counters and timings of the metrics are numbers the
\* pool does not derive from its sessions
getStatus ==
    [size |-> Cardinality(DOMAIN sessions),
     maxSize |-> poConfig.maxSessions,
     activeConnections |-> ActiveCount,
     metrics |-> [totalSessions |-> Cardinality(DOMAIN sessions), activeSessions |-> ActiveCount],
     sessions |-> SessionsInOrder]

\* the texts in a pool key `${host}:${port}:${version}:${hash}`; the port and
\* the hash are numbers
KeyTexts(k) == {k[1], k[3]}

\* the texts in the session copies a status carries; the other fields are
\* numbers, a flag and the handle
StatusTexts(status) ==
    UNION { {status.sessions[i].host, status.sessions[i].community, status.sessions[i].version} :
            i \in 1..Len(status.sessions) }

\* C11: neither a text in a pool key nor a text in the result of getStatus()
\* is the community string of a pooled session.
C11_NoRawCredential ==
    \A k \in DOMAIN sessions :
        /\ \A j \in DOMAIN sessions : sessions[k].community \notin KeyTexts(j)
        /\ sessions[k].community \notin StatusTexts(getStatus)

(***************************************************************************)
(* The operations snmpGet, snmpWalk and snmpBulkGet                        *)
(***************************************************************************)
\* new SnmpRateLimiter(): the configuration every operation constructs
DefaultMaxRequestsPerWindow == 60
DefaultWindowSizeMs == 60000
DefaultBlockDurationMs == 300000

DefaultRlConfig ==
    [maxRequestsPerWindow |-> DefaultMaxRequestsPerWindow, windowSizeMs |-> DefaultWindowSizeMs,
     blockDurationMs |-> DefaultBlockDurationMs, enableRateLimiting |-> TRUE]

Operations == {"get", "walk", "bulkGet"}

SentTo(key) == IF key \in DOMAIN orSent THEN orSent[key] ELSE 0

\* new SnmpRateLimiter().checkRateLimit(options.host): the limiter has no entry yet
FreshRateCheck(host) == CheckOutcome(NewEntry(normalizeHost(host), now), now)

\* new SnmpCacheManager().getCachedValue(options.host, options.oid): the cache is empty
FreshCacheLookup(host, oid) ==
    LET fresh == <<>> IN
    IF createCacheKey(host, oid) \in DOMAIN fresh THEN fresh[createCacheKey(host, oid)].value ELSE None

\* How far the synchronous part of an operation gets; valid is the answer of
\* InputValidator for the host and the identifiers.
StartOutcome_Of(op, host, oid, useCache, valid) ==
    IF ~FreshRateCheck(host).allowed THEN "rate"
    ELSE IF op = "get" /\ useCache /\ FreshCacheLookup(host, oid) # None THEN "cached"
    ELSE IF ~valid THEN "validation"
    ELSE "sent"

\* snmpGet, snmpWalk, snmpBulkGet up to the request handed to the transport session
OperationStarts(op, host, oid, useCache, valid) ==
    LET key == normalizeHost(host)
        outcome == StartOutcome_Of(op, host, oid, useCache, valid)
    IN  /\ Len(orCalls) < Cardinality(Callers)
        /\ SentTo(key) <= rlConfig.maxRequestsPerWindow
        /\ orLast' = [op |-> op, step |-> "start", key |-> key, outcome |-> outcome,
                      sentBefore |-> SentTo(key)]
        /\ IF outcome = "sent"
           THEN /\ orSent' = Put(orSent, key, SentTo(key) + 1)
                /\ orCalls' = Append(orCalls, [op |-> op, host |-> host, oid |-> oid,
                                               useCache |-> useCache])
           ELSE UNCHANGED <<orSent, orCalls>>
        /\ UNCHANGED <<now, rlVars, caVars, poVars, trVars>>

WithoutOperation(i) == SubSeq(orCalls, 1, i - 1) \o SubSeq(orCalls, i + 1, Len(orCalls))

\* the callback of session.get, session.subtree or session.getBulk: the session is
\* closed, the promise settles; a value is cached in the operation's own cache
OperationAnswered(i, answer) ==
    /\ orLast' = [op |-> orCalls[i].op, step |-> "answer", key |-> normalizeHost(orCalls[i].host),
                  outcome |-> IF answer = "varbinds" THEN "resolved" ELSE "rejected",
                  sentBefore |-> SentTo(normalizeHost(orCalls[i].host)),
                  host |-> orCalls[i].host, oid |-> orCalls[i].oid,
                  useCache |-> orCalls[i].useCache, at |-> now]
    /\ orCalls' = WithoutOperation(i)
    /\ UNCHANGED <<now, orSent, rlVars, caVars, poVars, trVars>>

OrInit ==
    /\ orCalls = <<>>
    /\ orSent = <<>>
    /\ orLast = [op |-> "none"]

OrNext ==
    \/ Tick(OrMaxTime) /\ UNCHANGED <<rlVars, caVars, poVars, trVars, orVars>>
    \/ \E op \in Operations, h \in RlHosts, o \in CacheOids, uc \in BOOLEAN, v \in BOOLEAN :
          OperationStarts(op, h, o, uc, v)
    \/ \E i \in 1..Len(orCalls), a \in {"error", "empty", "varbinds"} : OperationAnswered(i, a)

InitOrch ==
    /\ now = 0
    /\ rlConfig = DefaultRlConfig
    /\ deviceLimits = <<>>
    /\ cleanupTimer = TRUE
    /\ liveTimers = 1
    /\ rlLast = NoCall
    /\ rlAllowed = [k \in RlKeys |-> <<>>]
    /\ rlCeil = [k \in RlKeys |-> -1]
    /\ CaIdle
    /\ PoIdle
    /\ TrIdle
    /\ OrInit

SpecOrch == InitOrch /\ [][OrNext]_vars

\* C12: inside one window no device has had more transport sessions opened for
\* it than maxRequestsPerWindow, and an operation started when that many were
\* opened opens none.
C12_CeilingAcrossOperations ==
    now < rlConfig.windowSizeMs =>
        /\ \A key \in DOMAIN orSent : orSent[key] <= rlConfig.maxRequestsPerWindow
        /\ (orLast.op # "none" /\ orLast.step = "start"
              /\ orLast.sentBefore >= rlConfig.maxRequestsPerWindow) => orLast.outcome # "sent"

(***************************************************************************)
(* Further claims about the rate limiter                                   *)
(***************************************************************************)

\* C13: the first call for a blocked device made at or after the end of its
\* cooldown is allowed, leaves the device unblocked and leaves its own time as
\* the only recorded request, in a window that starts at that time.
C13_FreshWindowAfterCooldown ==
    (/\ rlLast.op = "check"
     /\ rlLast.wasBlocked
     /\ rlLast.prevCeil # -1
     /\ rlLast.time - rlLast.prevCeil >= rlConfig.blockDurationMs
     /\ rlConfig.maxRequestsPerWindow >= 1) =>
        /\ rlLast.allowed
        /\ ~deviceLimits[rlLast.key].blocked
        /\ deviceLimits[rlLast.key].requests = <<rlLast.time>>
        /\ deviceLimits[rlLast.key].windowStart = rlLast.time

\* A device blocked at the ceiling is asked again after its cooldown, while the
\* request that filled the window is still inside the window.
C13_Witness ==
    /\ rlLast.op = "check"
    /\ rlLast.wasBlocked
    /\ rlLast.prevCeil # -1
    /\ rlLast.time - rlLast.prevCeil >= rlConfig.blockDurationMs
    /\ rlLast.found >= rlConfig.maxRequestsPerWindow
    /\ rlLast.allowed
    /\ deviceLimits[rlLast.key].requests = <<rlLast.time>>

(***************************************************************************)
(* The response cache written again: one key, two values                   *)
(***************************************************************************)
RewriteHosts == { <<"h", "a">> }
RewriteValues == {"v1", "v2"}

RewriteNext ==
    \/ Tick(CaMaxTime) /\ UNCHANGED <<rlVars, caVars, poVars, trVars, orVars>>
    \/ \E h \in RewriteHosts, o \in CacheOids, v \in RewriteValues,
          t \in {<<>>} \cup {<<x>> : x \in 1..MaxTtl} : setCachedValue(h, o, v, t)
    \/ \E h \in RewriteHosts, o \in CacheOids : getCachedValue(h, o)
    \/ \E h \in RewriteHosts, o \in CacheOids : removeCachedValue(h, o)
    \/ caCleanup

SpecRewrite == InitCache /\ [][RewriteNext]_vars

\* C14: a write to a key the cache holds leaves the entry with the new value,
\* the time of the write and the new TTL, whatever the age of the entry it
\* replaces; and an entry younger than its TTL is read with its value.
C14_RewriteRestartsLifetime ==
    /\ (caLast.op = "set" /\ caLast.existed) =>
          /\ caLast.key \in DOMAIN cache
          /\ cache[caLast.key].value = caLast.value
          /\ cache[caLast.key].timestamp = caLast.at
          /\ cache[caLast.key].ttl = caLast.ttl
    /\ (caLast.op = "get" /\ caLast.had /\ caLast.age < caLast.ttl) =>
          /\ caLast.result = caLast.stored
          /\ caLast.key \in DOMAIN cache

\* An entry that has outlived its TTL is written again with another value and a
\* longer TTL.
C14_Witness ==
    /\ caLast.op = "set"
    /\ caLast.existed
    /\ caLast.prevAge > 1
    /\ caLast.value = "v2"
    /\ caLast.ttl = MaxTtl
    /\ cache[caLast.key].timestamp = caLast.at
    /\ now < caLast.at + caLast.ttl

(***************************************************************************)
(* Further claims about the session pool                                   *)
(***************************************************************************)
\* C15: every pooled session is stored under the key of its own host, port,
\* version and credential fingerprint, so the pool holds one session per key;
\* no two pooled sessions have the same id, so a release or close by id finds
\* at most one entry.
C15_OnePerKeyDistinctIds ==
    /\ \A k \in DOMAIN sessions : \E key \in SessionKeys :
          /\ key.host = sessions[k].host
          /\ key.community = sessions[k].community
          /\ key.version = sessions[k].version
          /\ key.port = sessions[k].port
          /\ SessionKeyOf[key] = k
    /\ \A k1, k2 \in DOMAIN sessions : sessions[k1].id = sessions[k2].id => k1 = k2
    /\ \A id \in 1..sessionIdCounter : Len(KeysWithId(PoolNow, id)) <= 1

\* Two sessions are pooled at once, one of them borrowed.
C15_Witness ==
    /\ Cardinality(DOMAIN sessions) = 2
    /\ \E k \in DOMAIN sessions : sessions[k].id \in borrowed
    /\ \E k1, k2 \in DOMAIN sessions : sessions[k1].id # sessions[k2].id

(***************************************************************************)
(* Continuous mode: the content filters                                    *)
(***************************************************************************)
\* C16: with filterCommunity set, a datagram that passes the source filter is
\* emitted exactly when the community parsed from it equals filterCommunity.
C16_CommunityFilterExact ==
    (/\ trLast.op = "message"
     /\ trLast.mode = "continuous"
     /\ trLast.accepted
     /\ ~trLast.raised
     /\ trigger.filters.filterCommunity # ""
     /\ trigger.filters.filterOid = <<>>) =>
        (trLast.item = <<"trap">> <=> trLast.community = trigger.filters.filterCommunity)

\* C17: with filterOid set, a datagram none of whose varbind identifiers starts
\* with filterOid (one without varbinds included) emits nothing and raises no
\* error, and the trigger goes on listening.
C17_OidFilterSuppresses ==
    (/\ trLast.op = "message"
     /\ trLast.mode = "continuous"
     /\ trigger.filters.filterOid # <<>>
     /\ ~hasMatchingOid(trLast.varbinds, trigger.filters.filterOid)) =>
        /\ trLast.item = <<>>
        /\ ~trLast.raised
        /\ ~trLast.propagated
        /\ Len(trigger.emitted) = trLast.before
        /\ trigger.state = "bound"

\* A datagram from an allowed source reaches the identifier filter and is dropped.
C17_Witness ==
    /\ trLast.op = "message"
    /\ trLast.mode = "continuous"
    /\ trLast.accepted
    /\ trigger.filters.filterOid # <<>>
    /\ trLast.varbinds = <<>>
    /\ trLast.item = <<>>
    /\ trigger.state = "bound"

(***************************************************************************)
(* Batch mode: what the caller receives                                    *)
(***************************************************************************)
ListenerSettledRight(l) ==
    /\ Len(l.receivedTraps) = l.trapCount
    /\ l.promise = "resolved" <=> l.timer = "fired"
    /\ l.promise = "pending" => l.timer = "pending"
    /\ l.promise = "resolved" => l.result = l.receivedTraps

ListenerStepRight(i) ==
    LET l == trapListeners[i]
        m == trapListeners'[i]
        stores == /\ trLast'.op = "message"
                  /\ trLast'.mode = "batch"
                  /\ trLast'.listener = i
                  /\ trLast'.accepted
                  /\ ~trLast'.raised
                  /\ trLast' # trLast
    IN  /\ l.promise # "pending" =>
              /\ m.promise = l.promise
              /\ m.result = l.result
              /\ m.receivedTraps = l.receivedTraps
        /\ stores => m.receivedTraps = Append(l.receivedTraps,
                                              [source |-> [address |-> trLast'.source,
                                                           port |-> trLast'.senderPort]])
        /\ ~stores => m.receivedTraps = l.receivedTraps

ErrorSeen ==
    \/ trLast.op = "error"
    \/ trLast.op = "bind" /\ ~trLast.bound

StaysStopped(i) ==
    LET l == trapListeners[i]
        m == trapListeners'[i]
    IN  /\ l.socket = "closed" => m.socket = "closed" /\ ~m.isListening
        /\ l.promise = "rejected" => m.promise = "rejected" /\ m.timer = "cleared"

\* C20: when the socket of a batch listener reports an error, a failed bind
\* included, the listener's timer is cancelled, its socket closed, its port
\* absent from the registry, its listening flag cleared and its caller
\* rejected; the listener never binds or settles again.
C20_SocketErrorStops ==
    /\ [](ErrorSeen =>
            LET l == trapListeners[trLast.listener] IN
            /\ l.timer = "cleared"
            /\ l.socket = "closed"
            /\ ~l.isListening
            /\ l.port \notin DOMAIN activeTrapListeners
            /\ l.promise = "rejected")
    /\ [][\A i \in 1..Len(trapListeners) : StaysStopped(i)]_vars

\* The socket of a listener that holds a record reports an error.
C20_Witness ==
    /\ trLast.op = "error"
    /\ trapListeners[trLast.listener].trapCount = MaxTraps
    /\ trapListeners[trLast.listener].promise = "rejected"

(***************************************************************************)
(* Continuous mode: one emit for each datagram that passes                 *)
(***************************************************************************)
\* A record passes the content filters: each filter that is set is satisfied.
PassesContent(filters, community, varbinds) ==
    /\ filters.filterCommunity = "" \/ community = filters.filterCommunity
    /\ filters.filterOid = <<>> \/ hasMatchingOid(varbinds, filters.filterOid)

\* C19: in continuous mode a datagram that passes the source filter and the
\* content filters, and whose handling raises nothing, is emitted as one record
\* by the handler that receives it; once closeFunction has run the trigger
\* emits nothing more.
C19_OneEmitPerPassingDatagram ==
    /\ []((/\ trLast.op = "message"
           /\ trLast.mode = "continuous"
           /\ trLast.accepted
           /\ ~trLast.raised
           /\ PassesContent(trigger.filters, trLast.community, trLast.varbinds)) =>
              /\ trLast.item = <<"trap">>
              /\ Len(trigger.emitted) = trLast.before + 1)
    /\ [][trigger.state = "closed" => trigger' = trigger]_vars

(***************************************************************************)
(* Rate limiter: the stored timestamps, other devices, enabling            *)
(***************************************************************************)
\* C21: when a checkRateLimit call has returned, whatever its answer, the
\* device's stored timestamps include none older than the time of the call
\* less windowSizeMs.
C21_NoStaleTimestamps ==
    (rlLast.op = "check" /\ rlLast.kind # "disabled") =>
        \A i \in 1..Len(deviceLimits[rlLast.key].requests) :
            deviceLimits[rlLast.key].requests[i] >= rlLast.time - rlConfig.windowSizeMs

\* Two devices, one of them under two spellings.
DeviceHosts == RawHosts

DeviceConfigs ==
    [maxRequestsPerWindow : 1..MaxReq,
     windowSizeMs : {1},
     blockDurationMs : {1, 2},
     enableRateLimiting : {TRUE}]

DevicesNext ==
    \/ Tick(DevMaxTime) /\ UNCHANGED <<rlVars, caVars, poVars, trVars, orVars>>
    \/ \E h \in DeviceHosts : checkRateLimit(h)
    \/ \E h \in DeviceHosts : resetRateLimit(h)
    \/ rlCleanup

InitDevices ==
    /\ now = 0
    /\ OrIdle
    /\ TrIdle
    /\ CaIdle
    /\ PoIdle
    /\ rlConfig \in DeviceConfigs
    /\ deviceLimits = <<>>
    /\ cleanupTimer = TRUE
    /\ liveTimers = 1
    /\ rlLast = NoCall
    /\ rlAllowed = [k \in RlKeys |-> <<>>]
    /\ rlCeil = [k \in RlKeys |-> -1]

SpecDevices == InitDevices /\ [][DevicesNext]_vars

\* Two device strings denote one device when they are equal after lower-casing
\* and trimming.
SameDevice(g, h) == Trim(ToLowerCase(g)) = Trim(ToLowerCase(h))

\* What the limiter holds for a device string: <<entry>>, or <<>> for none
StoredFor(limits, g) ==
    IF normalizeHost(g) \in DOMAIN limits THEN <<limits[normalizeHost(g)]>> ELSE <<>>

\* C22: a checkRateLimit or resetRateLimit for one device leaves what is stored
\* for every other device as it was, and what it stores is found under every
\* spelling of the same device.
C22_DevicesIndependent ==
    [][\A h \in DeviceHosts :
          (checkRateLimit(h) \/ resetRateLimit(h)) =>
              \A g \in DeviceHosts :
                  IF SameDevice(g, h)
                  THEN StoredFor(deviceLimits', g) = StoredFor(deviceLimits', h)
                  ELSE StoredFor(deviceLimits', g) = StoredFor(deviceLimits, g)]_vars

\* One device is blocked while the other, asked under its second spelling, is
\* allowed.
C22_Witness ==
    /\ rlLast.op = "check"
    /\ rlLast.allowed
    /\ rlLast.found > 0
    /\ \E k \in DOMAIN deviceLimits : k # rlLast.key /\ deviceLimits[k].blocked

\* The limiter switched off and on: every constructor setting of
\* enableRateLimiting, then setEnabled and shutdown in any order.
SwitchConfigs ==
    [maxRequestsPerWindow : {1},
     windowSizeMs : {1},
     blockDurationMs : {1},
     enableRateLimiting : BOOLEAN]

SwitchNext ==
    \/ Tick(DevMaxTime) /\ UNCHANGED <<rlVars, caVars, poVars, trVars, orVars>>
    \/ \E h \in RlHosts : checkRateLimit(h)
    \/ \E e \in BOOLEAN : setEnabled(e)
    \/ shutdown
    \/ rlCleanup

InitSwitch ==
    /\ now = 0
    /\ OrIdle
    /\ TrIdle
    /\ CaIdle
    /\ PoIdle
    /\ rlConfig \in SwitchConfigs
    /\ deviceLimits = <<>>
    /\ cleanupTimer = TRUE
    /\ liveTimers = 1
    /\ rlLast = NoCall
    /\ rlAllowed = [k \in RlKeys |-> <<>>]
    /\ rlCeil = [k \in RlKeys |-> -1]

SpecSwitch == InitSwitch /\ [][SwitchNext]_vars

\* C23: setEnabled(false) leaves no sweep timer and an empty device map; while
\* rate limiting is disabled every check is allowed and the map stays empty;
\* setEnabled(true) leaves a sweep timer running; there is never more than one
\* sweep timer, and one runs whenever rate limiting is enabled.
C23_TimerFollowsEnabled ==
    /\ (rlLast.op = "setEnabled" /\ ~rlLast.enabled) =>
          (~cleanupTimer /\ liveTimers = 0 /\ deviceLimits = <<>>)
    /\ ~rlConfig.enableRateLimiting => deviceLimits = <<>>
    /\ (rlLast.op = "check" /\ ~rlConfig.enableRateLimiting) => rlLast.allowed
    /\ (rlLast.op = "setEnabled" /\ rlLast.enabled) => (cleanupTimer /\ liveTimers = 1)
    /\ liveTimers <= 1
    /\ rlConfig.enableRateLimiting => liveTimers = 1

(***************************************************************************)
(* Response cache: removing a device's entries                             *)
(***************************************************************************)
\* removeHostCache(host): deletes the keys that start with `${host}:`
removeHostCache(host) ==
    LET hostPrefix == host \o <<":">>
        gone == {k \in DOMAIN cache : startsWith(k, hostPrefix)}
    IN  /\ cache' = Drop(cache, gone)
        /\ cacheOrder' = KeepOrder(cacheOrder, DOMAIN cache \ gone)
        /\ caLast' = [op |-> "removeHost", host |-> host, removed |-> Cardinality(gone),
                      before |-> cache]
        /\ UNCHANGED <<now, caConfig, rlVars, poVars, trVars, orVars>>

HostCacheNext ==
    \/ Tick(CaMaxTime) /\ UNCHANGED <<rlVars, caVars, poVars, trVars, orVars>>
    \/ \E h \in CacheHosts, o \in CacheOids, v \in CacheValues : setCachedValue(h, o, v, <<>>)
    \/ \E h \in CacheHosts, o \in CacheOids : getCachedValue(h, o)
    \/ \E h \in CacheHosts : removeHostCache(h)

SpecHostCache == InitCache /\ [][HostCacheNext]_vars

\* C24: removeHostCache(device) leaves no entry stored for that device, hosts
\* being compared without regard to case, returns the number of entries it
\* removed, and leaves every entry of another device as it was.
C24_RemovesTheDevice ==
    caLast.op = "removeHost" =>
        LET mine == {k \in DOMAIN caLast.before :
                        ToLowerCase(caLast.before[k].host) = ToLowerCase(caLast.host)}
        IN  /\ \A k \in mine : k \notin DOMAIN cache
            /\ caLast.removed = Cardinality(mine)
            /\ \A k \in (DOMAIN caLast.before) \ mine :
                  k \in DOMAIN cache /\ cache[k] = caLast.before[k]

(***************************************************************************)
(* What the accessors hand out, and callers that change it                 *)
(***************************************************************************)
\* An accessor hands out the object the component holds (shared) or a new one.
Handed(shared, value) == [shared |-> shared, value |-> value]

\* getCachedValue returns entry.value itself (decompress returns its argument)
getCachedValue_Result(key) == Handed(TRUE, cache[key].value)

\* exportData(): `config: this.config`
exportData_Config == Handed(TRUE, rlConfig)

\* getConfig(): `{ ...this.config }`
getConfig == Handed(FALSE, rlConfig)

\* getStatus(): `sessions.map(s => ({ ...s }))`
getStatus_Session(i) == Handed(FALSE, getStatus.sessions[i])

\* a caller reads a cached value and writes into what it received
CallerChangesCachedValue(host, oid) ==
    LET key == createCacheKey(host, oid) IN
    /\ key \in DOMAIN cache
    /\ ~isExpired(cache[key], now)
    /\ cache[key].hitCount < MaxHits
    /\ cache' = [cache EXCEPT ![key].hitCount = @ + 1,
                              ![key].lastAccess = now,
                              ![key].value = IF getCachedValue_Result(key).shared
                                             THEN "changed" ELSE @]
    /\ caLast' = [op |-> "change", key |-> key, stored |-> cache[key].value]
    /\ UNCHANGED <<now, caConfig, cacheOrder, rlVars, poVars, trVars, orVars>>

\* a caller writes into the config of an exportData() result
CallerChangesExportedConfig ==
    /\ rlConfig' = IF exportData_Config.shared
                   THEN [rlConfig EXCEPT !.enableRateLimiting = ~@] ELSE rlConfig
    /\ rlLast' = [op |-> "changeExport", before |-> rlConfig]
    /\ UNCHANGED <<now, deviceLimits, cleanupTimer, liveTimers, rlAllowed, rlCeil,
                   caVars, poVars, trVars, orVars>>

\* a caller writes into the result of getConfig()
CallerChangesGotConfig ==
    /\ rlConfig' = IF getConfig.shared
                   THEN [rlConfig EXCEPT !.enableRateLimiting = ~@] ELSE rlConfig
    /\ rlLast' = [op |-> "changeConfig", before |-> rlConfig]
    /\ UNCHANGED <<now, deviceLimits, cleanupTimer, liveTimers, rlAllowed, rlCeil,
                   caVars, poVars, trVars, orVars>>

\* a caller writes into a session record of a getStatus() result
CallerChangesStatusSession(i) ==
    /\ i \in 1..Len(sessionOrder)
    /\ sessions' = IF getStatus_Session(i).shared
                   THEN [sessions EXCEPT ![sessionOrder[i]].active = ~@] ELSE sessions
    /\ poLast' = [op |-> "changeStatus", before |-> sessions]
    /\ UNCHANGED <<now, poConfig, sessionOrder, sessionIdCounter, handles, calls, borrowed,
                   rlVars, caVars, trVars, orVars>>

AccessNext ==
    \/ \E h \in RewriteHosts, o \in CacheOids, v \in CacheValues : setCachedValue(h, o, v, <<>>)
    \/ \E h \in RewriteHosts, o \in CacheOids : CallerChangesCachedValue(h, o)
    \/ CallerChangesExportedConfig
    \/ CallerChangesGotConfig
    \/ \E key \in SessionKeys : getSession(key, FALSE, FALSE)
    \/ \E i \in 1..Len(calls) : getSessionResume(i, FALSE, FALSE)
    \/ \E id \in 1..sessionIdCounter : recordRequest(id)
    \/ \E i \in 1..MaxSessions : CallerChangesStatusSession(i)

InitAccess ==
    /\ now = 0
    /\ OrIdle
    /\ TrIdle
    /\ RlIdle
    /\ CaIdle
    /\ PoInit

SpecAccess == InitAccess /\ [][AccessNext]_vars

\* C25: writing into a value obtained from getCachedValue, into the config of
\* an exportData() result, into the result of getConfig() or into a session
\* record of getStatus() leaves what the component holds as it was.
C25_NothingSharedWithCallers ==
    /\ caLast.op = "change" => cache[caLast.key].value = caLast.stored
    /\ rlLast.op \in {"changeExport", "changeConfig"} => rlConfig = rlLast.before
    /\ poLast.op = "changeStatus" => sessions = poLast.before

(***************************************************************************)
(* Session pool: closing and releasing by id                               *)
(***************************************************************************)
PoolIds == 1..(MaxIds + 1)

\* The pool used by one caller that gets, releases and closes sessions.
ByIdNext ==
    \/ Tick(PoMaxTime) /\ UNCHANGED <<rlVars, caVars, poVars, trVars, orVars>>
    \/ \E key \in SessionKeys : getSession(key, FALSE, FALSE)
    \/ \E i \in 1..Len(calls) : getSessionResume(i, FALSE, FALSE)
    \/ \E id \in 1..sessionIdCounter : releaseSession(id)
    \/ \E id \in 1..sessionIdCounter, ct \in BOOLEAN : closeSession(id, ct)

SpecById == InitPool /\ [][ByIdNext]_vars

\* C26: closeSession(id) raises nothing and leaves no pooled session with that
\* id, also when close() of the handle throws; the other sessions stay as they
\* were, and with an id no session has the pool is unchanged.
C26_CloseAlwaysRemoves ==
    [][\A id \in PoolIds, ct \in BOOLEAN :
          closeSession(id, ct) =>
              /\ ~closeSessionRaises(ct)
              /\ \A k \in DOMAIN sessions' : sessions'[k].id # id
              /\ \A k \in DOMAIN sessions :
                    sessions[k].id # id => (k \in DOMAIN sessions' /\ sessions'[k] = sessions[k])
              /\ DOMAIN sessions' \subseteq DOMAIN sessions
              /\ KeysWithId(PoolNow, id) = <<>> =>
                    (sessionOrder' = sessionOrder /\ handles' = handles
                       /\ sessionIdCounter' = sessionIdCounter)]_vars

\* A session whose close() threw is gone from the pool.
C26_Witness ==
    \E h \in DOMAIN handles :
        /\ handles[h] = "closeFailed"
        /\ \A k \in DOMAIN sessions : sessions[k].id # h
        /\ poLast = PoDone

\* C27: releaseSession(id) leaves the session inactive with lastUsed at the time
\* of the call, and leaves the set of pooled sessions, the session's handle, its
\* request count and every other session as they were; with an id no session
\* has the pool is unchanged.
C27_ReleaseKeepsSession ==
    [][\A id \in PoolIds :
          releaseSession(id) =>
              /\ DOMAIN sessions' = DOMAIN sessions
              /\ sessionOrder' = sessionOrder
              /\ handles' = handles
              /\ \A k \in DOMAIN sessions :
                    IF sessions[k].id = id
                    THEN /\ ~sessions'[k].active
                         /\ sessions'[k].lastUsed = now
                         /\ sessions'[k].session = sessions[k].session
                         /\ sessions'[k].requestCount = sessions[k].requestCount
                         /\ sessions'[k].id = id
                    ELSE sessions'[k] = sessions[k]]_vars

\* A session that was borrowed some time ago has been released and is pooled.
C27_Witness ==
    \E k \in DOMAIN sessions :
        /\ sessions[k].id \notin borrowed
        /\ sessions[k].lastUsed = now
        /\ now > 0
        /\ poLast = PoDone

(***************************************************************************)
(* snmpGet asked again for what it has just fetched                        *)
(***************************************************************************)
\* the shortest lifetime determineTtl gives an entry under the default config
ShortestDefaultTtl == 30000

\* The last step was the successful answer of a snmpGet with useCache for
\* (host, oid), less than the entry's lifetime ago.
JustFetched(host, oid) ==
    /\ orLast.op = "get"
    /\ orLast.step = "answer"
    /\ orLast.outcome = "resolved"
    /\ orLast.useCache
    /\ orLast.host = host
    /\ orLast.oid = oid
    /\ now - orLast.at < ShortestDefaultTtl

\* C28: a snmpGet with useCache for a (host, oid) that a snmpGet with useCache
\* fetched successfully less than the lifetime ago is served from the cache and
\* opens no transport session.
C28_SecondGetFromCache ==
    [][\A h \in RlHosts, o \in CacheOids, v \in BOOLEAN :
          (JustFetched(h, o) /\ OperationStarts("get", h, o, TRUE, v)) =>
              (orLast'.outcome = "cached" /\ orSent' = orSent)]_vars

(***************************************************************************)
(* Session pool: getSession calls in flight together                       *)
(***************************************************************************)
\* Two callers, each awaiting its own call, and one id more than they need to
\* replace a pooled session twice.
RaceCallers == {"c1", "c2"}
RaceIds == MaxIds + 1

RaceNext ==
    \/ Tick(PoMaxTime) /\ UNCHANGED <<rlVars, caVars, poVars, trVars, orVars>>
    \/ \E key \in SessionKeys : getSessionAmong(RaceCallers, RaceIds, key, FALSE, FALSE)
    \/ \E i \in 1..Len(calls) : getSessionResumeWithin(RaceIds, i, FALSE, FALSE)
    \/ \E id \in 1..sessionIdCounter : releaseSession(id)
    \/ \E id \in 1..sessionIdCounter : closeSession(id, FALSE)
    \/ poCleanup(FALSE)

SpecRace == InitPool /\ [][RaceNext]_vars

\* C29: the pool never holds more than maxSessions sessions, also when
\* getSession calls for different keys are suspended at an await while others run.
C29_NeverMoreThanMaxSessions ==
    Cardinality(DOMAIN sessions) <= poConfig.maxSessions

\* The same callers, all asking for one key.
SameKey == SKey(<<"h", "a">>)

SameKeyNext ==
    \/ Tick(PoMaxTime) /\ UNCHANGED <<rlVars, caVars, poVars, trVars, orVars>>
    \/ getSessionAmong(RaceCallers, RaceIds, SameKey, FALSE, FALSE)
    \/ \E i \in 1..Len(calls) : getSessionResumeWithin(RaceIds, i, FALSE, FALSE)
    \/ \E id \in 1..sessionIdCounter : releaseSession(id)

SpecSameKey == InitPool /\ [][SameKeyNext]_vars

\* The handles that were opened and not closed.
OpenHandles == {h \in DOMAIN handles : handles[h] = "open"}

\* The handles the pool can still reach.
PooledHandles == {sessions[k].session : k \in DOMAIN sessions}

\* C30: getSession calls for one key that are in flight together while the
\* key's pooled session is stale leave, once all have returned, one session
\* pooled under the key and every handle they opened either pooled or closed:
\* none is overwritten in the pool while still open.
C30_NoHandleLost ==
    /\ Cardinality(DOMAIN sessions) <= 1
    /\ (calls = <<>> /\ poLast.op = "get" /\ poLast.err = "none") =>
          Cardinality(DOMAIN sessions) = 1
    /\ OpenHandles \subseteq PooledHandles

(***************************************************************************)
(* Session pool: eviction at the size ceiling                              *)
(***************************************************************************)
\* The pooled sessions that are not marked active.
InactiveKeys == {k \in DOMAIN sessions : ~sessions[k].active}

\* getSession is called for a key that is not pooled while the pool is at its
\* ceiling and holds an inactive session.
FullForNewKey(key) ==
    /\ SessionKeyOf[key] \notin DOMAIN sessions
    /\ Cardinality(DOMAIN sessions) >= poConfig.maxSessions
    /\ InactiveKeys # {}

\* C31: getSession for a new key at the ceiling, with an inactive session
\* pooled, closes exactly one session, an inactive one with the smallest
\* lastUsed, whatever the lastUsed times are (so it does not raise the capacity
\* error); the call then registers the new session.
C31_EvictsOldestInactive ==
    [][/\ \A key \in SessionKeys, ct \in BOOLEAN, cf \in BOOLEAN :
             (FullForNewKey(key) /\ getSession(key, ct, cf)) =>
                 \E k \in InactiveKeys :
                     /\ \A j \in InactiveKeys : sessions[k].lastUsed <= sessions[j].lastUsed
                     /\ DOMAIN sessions' = DOMAIN sessions \ {k}
                     /\ handles'[sessions[k].session] # "open"
                     /\ \A j \in DOMAIN sessions' : handles'[sessions'[j].session] = handles[sessions[j].session]
       /\ \A i \in 1..Len(calls), ct \in BOOLEAN :
             (calls[i].pc = "create" /\ getSessionResume(i, ct, FALSE)) =>
                 /\ SessionKeyOf[calls[i].key] \in DOMAIN sessions'
                 /\ sessions'[SessionKeyOf[calls[i].key]].id = sessionIdCounter']_vars

(***************************************************************************)
(* Session pool: the validity check and what getSession does with it       *)
(***************************************************************************)
\* The validity check as stated: idle time under the timeout, request count
\* under the ceiling (a pooled handle is never null: createNewSession pools what
\* snmp.createSession returned).
PassesAsStated(pre) ==
    /\ pre.idle < poConfig.sessionTimeout
    /\ pre.requestCount < poConfig.maxRequestsPerSession

\* C32: a getSession call for a pooled key returns the pooled session exactly
\* when its idle time is under sessionTimeout and its request count is under
\* maxRequestsPerSession; otherwise it closes that session and opens a new one
\* under the same key.
C32_ValidityDecidesReuse ==
    (poLast.op = "get" /\ poLast.pre.pooled) =>
        IF PassesAsStated(poLast.pre)
        THEN /\ poLast.result = poLast.pre.id
             /\ ~poLast.opened
             /\ poLast.closed = {}
        ELSE /\ poLast.pre.id \in poLast.closed
             /\ poLast.err = "none" =>
                   /\ poLast.opened
                   /\ poLast.result # poLast.pre.id
                   /\ poLast.key \in DOMAIN sessions
                   /\ sessions[poLast.key].id = poLast.result

(***************************************************************************)
(* Batch listeners: the registry entry of the listener that is listening   *)
(***************************************************************************)
\* C33: while a batch listener is listening, the registry maps its port to it,
\* whatever the teardown of other invocations for the same port does.
C33_ListeningIsRegistered ==
    \A i \in 1..Len(trapListeners) :
        trapListeners[i].isListening =>
            /\ trapListeners[i].port \in DOMAIN activeTrapListeners
            /\ activeTrapListeners[trapListeners[i].port] = i

(***************************************************************************)
(* Response cache: what a write to a full store removes                    *)
(***************************************************************************)
\* the smallest store of which Math.floor(length * 0.2) is not zero
EvictSize == 5

\* The devices polled, one more than the store holds, in the order of the round.
EvictOrder ==
    << <<"h", "a">>, <<"h", "b">>, <<"h", "c">>, <<"h", "d">>, <<"h", "e">>, <<"h", "f">> >>

\* The first device is also written with a lifetime that ends at once; one
\* device is read back.
LifetimesOf(i) == IF i = 1 THEN {<<>>, <<0>>} ELSE {<<>>}
ReadBack == { <<"h", "b">> }

\* The poller fetches the first device of the round that is not stored.
PolledInTurn(i, oid) ==
    /\ createCacheKey(EvictOrder[i], oid) \notin DOMAIN cache
    /\ \A j \in 1..(i - 1) : createCacheKey(EvictOrder[j], oid) \in DOMAIN cache

EvictNext ==
    \/ Tick(OrMaxTime) /\ UNCHANGED <<rlVars, caVars, poVars, trVars, orVars>>
    \/ \E i \in DOMAIN EvictOrder, o \in CacheOids : \E t \in LifetimesOf(i) :
          PolledInTurn(i, o) /\ setCachedValue(EvictOrder[i], o, "v1", t)
    \/ \E h \in ReadBack, o \in CacheOids : getCachedValue(h, o)

InitEvict ==
    /\ now = 0
    /\ OrIdle
    /\ TrIdle
    /\ RlIdle
    /\ PoIdle
    /\ caConfig = [maxCacheSize |-> EvictSize, dynamicDataTtl |-> MaxTtl,
                   enableCompression |-> FALSE]
    /\ cache = <<>>
    /\ cacheOrder = <<>>
    /\ caLast = CaNoCall

SpecEvict == InitEvict /\ [][EvictNext]_vars

\* The order the claim names: last access, then hit count.
StrictlyBefore(a, b) ==
    \/ a.lastAccess < b.lastAccess
    \/ a.lastAccess = b.lastAccess /\ a.hitCount < b.hitCount

\* C34: a setCachedValue that finds the store at capacity removes every expired
\* entry; if that leaves fewer than maxCacheSize entries it removes no unexpired
\* one; otherwise it removes floor(20%) of the unexpired entries, none of which
\* comes after a kept one in the order (lastAccess, then hitCount). The entries
\* that stay are unchanged.
C34_EvictsExpiredThenOldestFifth ==
    [][\A i \in DOMAIN EvictOrder, o \in CacheOids : \A t \in LifetimesOf(i) :
          (Cardinality(DOMAIN cache) >= caConfig.maxCacheSize
             /\ setCachedValue(EvictOrder[i], o, "v1", t)) =>
              LET key == createCacheKey(EvictOrder[i], o)
                  expired == {k \in DOMAIN cache : (now - cache[k].timestamp) > cache[k].ttl}
                  live == DOMAIN cache \ expired
                  gone == (DOMAIN cache \ DOMAIN cache') \ {key}
              IN  /\ expired \ {key} \subseteq gone
                  /\ \A k \in DOMAIN cache' \ {key} : k \in DOMAIN cache /\ cache'[k] = cache[k]
                  /\ IF Cardinality(live) < caConfig.maxCacheSize
                     THEN gone \subseteq expired
                     ELSE \E removed \in SUBSET live :
                             /\ Cardinality(removed) = (Cardinality(live) * 20) \div 100
                             /\ gone \ expired = removed \ {key}
                             /\ \A r \in removed, k \in live \ removed :
                                   ~StrictlyBefore(cache[k], cache[r])]_vars

\* A write to a full store with nothing expired has removed an unexpired entry
\* and left the store full again.
C34_Witness ==
    /\ caLast.op = "set"
    /\ caLast.evictedLive > 0
    /\ Cardinality(DOMAIN cache) = caConfig.maxCacheSize
    /\ \E k \in DOMAIN cache : cache[k].lastAccess < now

(***************************************************************************)
(* Response cache: exportCache and importCache                             *)
(***************************************************************************)
\* setCachedValue(host, oid, value, ttl) at time t, on a store and its order
StoreAfterSet(st, host, oid, value, ttl, t) ==
    LET key == createCacheKey(host, oid)
        kept == KeysBeforeInsert(st.cache, st.order, t)
        entry == [value |-> IF caConfig.enableCompression THEN compress(value) ELSE value,
                  timestamp |-> t, ttl |-> ttl, oid |-> oid, host |-> host,
                  hitCount |-> 0, lastAccess |-> t]
    IN  [cache |-> Put(Restrict(st.cache, kept), key, entry),
         order |-> OrderAfterSet(KeepOrder(st.order, kept), key)]

\* exportCache().entries: host, oid, value, timestamp and ttl of every entry
exportCache ==
    [i \in 1..Len(cacheOrder) |->
        LET e == cache[cacheOrder[i]] IN
        [host |-> e.host, oid |-> e.oid,
         value |-> IF caConfig.enableCompression THEN decompress(e.value) ELSE e.value,
         timestamp |-> e.timestamp, ttl |-> e.ttl]]

\* the loop of importCache: entries not yet expired are written with their ttl
RECURSIVE ImportInto(_, _, _)
ImportInto(st, entries, t) ==
    IF entries = <<>> THEN st
    ELSE LET e == Head(entries) IN
         IF (t - e.timestamp) < e.ttl
         THEN ImportInto(StoreAfterSet(st, e.host, e.oid, e.value, e.ttl, t), Tail(entries), t)
         ELSE ImportInto(st, Tail(entries), t)

importCache(entries) ==
    LET st == ImportInto([cache |-> cache, order |-> cacheOrder], entries, now) IN
    /\ cache' = st.cache
    /\ cacheOrder' = st.order
    /\ caLast' = [op |-> "import", entries |-> entries, at |-> now,
                  room |-> Cardinality(DOMAIN cache) + Len(entries) <= caConfig.maxCacheSize,
                  absent |-> \A i \in 1..Len(entries) :
                                 createCacheKey(entries[i].host, entries[i].oid) \notin DOMAIN cache,
                  imported |-> Len(SelectSeq(entries, LAMBDA e : (now - e.timestamp) < e.ttl))]
    /\ UNCHANGED <<now, caConfig, rlVars, poVars, trVars, orVars>>

\* The entries a snapshot taken at or before time t can hold.
SnapshotEntries(t) ==
    [host : CacheHosts, oid : CacheOids, value : CacheValues, timestamp : 0..t, ttl : 1..MaxTtl]

\* Snapshots of one entry, and of two entries of different devices.
Snapshots(t) ==
    {<<e>> : e \in SnapshotEntries(t)}
      \cup {<<e, f>> : e \in {x \in SnapshotEntries(t) : x.host = <<"h", "a">>},
                       f \in {x \in SnapshotEntries(t) : x.host = <<"H", "b">>}}

ImportNext ==
    \/ Tick(CaMaxTime) /\ UNCHANGED <<rlVars, caVars, poVars, trVars, orVars>>
    \/ \E h \in CacheHosts, o \in CacheOids, v \in CacheValues, t \in {<<x>> : x \in 1..MaxTtl} :
          setCachedValue(h, o, v, t)
    \/ \E entries \in Snapshots(now) : importCache(entries)
    \/ importCache(exportCache)

SpecImport == InitCache /\ [][ImportNext]_vars

\* getCachedValue would return the entry at this moment.
Retrievable(host, oid) ==
    /\ createCacheKey(host, oid) \in DOMAIN cache
    /\ ~isExpired(cache[createCacheKey(host, oid)], now)

\* C35: after importCache into a cache with room that held none of the
\* snapshot's keys, and as long as nothing else is done to the cache, an entry
\* of the snapshot is retrievable at time T exactly when T minus its recorded
\* creation timestamp is less than its ttl.
C35_ImportKeepsLifetime ==
    (caLast.op = "import" /\ caLast.room /\ caLast.absent) =>
        \A i \in 1..Len(caLast.entries) :
            LET e == caLast.entries[i] IN
            Retrievable(e.host, e.oid) <=> (now - e.timestamp) < e.ttl

(***************************************************************************)
(* Session pool: one device, several community strings                     *)
(***************************************************************************)
CredNext ==
    \/ Tick(PoMaxTime) /\ UNCHANGED <<rlVars, caVars, poVars, trVars, orVars>>
    \/ \E key \in CredKeys : getSession(key, FALSE, FALSE)
    \/ \E i \in 1..Len(calls) : getSessionResume(i, FALSE, FALSE)
    \/ \E id \in 1..sessionIdCounter : releaseSession(id)
    \/ \E id \in 1..sessionIdCounter : recordRequest(id)

SpecCred == InitPool /\ [][CredNext]_vars

\* The community string the session with this id was opened with.
OpenedWith(pooled, id) == {pooled[k].community : k \in {x \in DOMAIN pooled : pooled[x].id = id}}

\* C36: getSession for a key never answers with a pooled session that was opened
\* with another community string for the same host, port and version, and keys
\* that differ in the community string have different pool keys.
C36_CommunityNeverShared ==
    [][/\ \A key \in CredKeys :
             (getSession(key, FALSE, FALSE) /\ poLast'.op = "get" /\ poLast'.result # 0) =>
                 OpenedWith(sessions', poLast'.result) = {key.community}
       /\ \A k1 \in CredKeys, k2 \in CredKeys :
             k1.community # k2.community => SessionKeyOf[k1] # SessionKeyOf[k2]]_vars

(***************************************************************************)
(* Rate limiter: the sweep and a device without traffic                    *)
(***************************************************************************)
SweepNext ==
    \/ Tick(RlMaxTime) /\ UNCHANGED <<rlVars, caVars, poVars, trVars, orVars>>
    \/ \E h \in RlHosts : checkRateLimit(h)
    \/ rlCleanup

\* The interval timer goes on firing and time goes on; nothing obliges a caller
\* to check a device.
SpecSweep ==
    /\ InitDevices
    /\ [][SweepNext]_vars
    /\ WF_vars(rlCleanup)
    /\ WF_vars(Tick(RlMaxTime) /\ UNCHANGED <<rlVars, caVars, poVars, trVars, orVars>>)

\* The device's cooldown, if any, is over and the sweep's cutoff has passed all
\* its recorded timestamps.
AgedOut(k) ==
    k \in DOMAIN deviceLimits =>
        /\ deviceLimits[k].blocked =>
              (now - deviceLimits[k].windowStart) >= rlConfig.blockDurationMs
        /\ \A i \in 1..Len(deviceLimits[k].requests) :
              deviceLimits[k].requests[i] <= now - rlConfig.windowSizeMs * 2

\* No step is a checkRateLimit call for device k.
NoCheckOf(k) == \A h \in RlHosts : normalizeHost(h) = k => ~checkRateLimit(h)

\* C37: if from some time on no checkRateLimit is made for a device, then from
\* some time on its entry is not in the map whenever its cooldown has elapsed
\* and its timestamps have aged out, whether it was last allowed or blocked.
C37_IdleDeviceIsSwept ==
    \A k \in RlKeys :
        (<>[][NoCheckOf(k)]_vars) => <>[](AgedOut(k) => k \notin DOMAIN deviceLimits)

(***************************************************************************)
(* Session pool: one run of the sweep                                      *)
(***************************************************************************)
PoolSweepNext ==
    \/ Tick(PoMaxTime) /\ UNCHANGED <<rlVars, caVars, poVars, trVars, orVars>>
    \/ \E key \in SessionKeys : getSession(key, FALSE, FALSE)
    \/ \E i \in 1..Len(calls) : getSessionResume(i, FALSE, FALSE)
    \/ \E id \in 1..sessionIdCounter : recordRequest(id)
    \/ \E ct \in BOOLEAN : poCleanup(ct)

SpecPoolSweep == InitPool /\ [][PoolSweepNext]_vars

\* C38: one run of the sweep closes and removes every pooled session that fails
\* the validity check, and leaves every valid session pooled with its handle
\* open and its fields unchanged.
C38_SweepClosesTheInvalid ==
    [][\A ct \in BOOLEAN :
          poCleanup(ct) =>
              /\ DOMAIN sessions' \subseteq DOMAIN sessions
              /\ \A k \in DOMAIN sessions :
                    IF /\ (now - sessions[k].lastUsed) <= poConfig.sessionTimeout
                       /\ sessions[k].requestCount <= poConfig.maxRequestsPerSession
                       /\ sessions[k].session # 0
                    THEN /\ k \in DOMAIN sessions'
                         /\ sessions'[k] = sessions[k]
                         /\ handles'[sessions[k].session] = "open"
                    ELSE /\ k \notin DOMAIN sessions'
                         /\ handles'[sessions[k].session] # "open"]_vars

\* With room for two sessions and two opened, a sweep has closed one that had
\* become invalid and left the valid one pooled.
C38_Witness ==
    /\ poConfig.maxSessions = 2
    /\ calls = <<>>
    /\ sessionIdCounter = 2
    /\ Cardinality(DOMAIN sessions) = 1
    /\ \E k \in DOMAIN sessions : isSessionValid(sessions[k], now)
    /\ \E h \in DOMAIN handles : handles[h] # "open"
    /\ poLast = PoDone

(***************************************************************************)
(* Session pool: healthCheck                                               *)
(***************************************************************************)
\* the test inside healthCheck: the handle exists and the session is not too old
HealthyAt(session, t) ==
    ~(session.session = 0 \/ (t - session.lastUsed) > poConfig.sessionTimeout)

\* healthCheck(): one result for every pooled session, in the Map's order
healthCheck ==
    /\ poLast' = [op |-> "health", at |-> now, before |-> PoolNow,
                  results |-> [i \in 1..Len(sessionOrder) |->
                                  [sessionId |-> sessions[sessionOrder[i]].id,
                                   host |-> sessions[sessionOrder[i]].host,
                                   healthy |-> HealthyAt(sessions[sessionOrder[i]], now)]]]
    /\ UNCHANGED <<now, poConfig, sessions, sessionOrder, sessionIdCounter, handles, calls,
                   borrowed, rlVars, caVars, trVars, orVars>>

HealthNext ==
    \/ Tick(PoMaxTime) /\ UNCHANGED <<rlVars, caVars, poVars, trVars, orVars>>
    \/ \E key \in SessionKeys : getSession(key, FALSE, FALSE)
    \/ \E i \in 1..Len(calls) : getSessionResume(i, FALSE, FALSE)
    \/ \E id \in 1..sessionIdCounter : recordRequest(id)
    \/ healthCheck

SpecHealth == InitPool /\ [][HealthNext]_vars

\* C39: healthCheck reports every pooled session exactly once, reports it
\* healthy exactly when it passes isSessionValid at that moment, and changes
\* nothing in the pool.
C39_HealthIsValidity ==
    poLast.op = "health" =>
        /\ PoolNow = poLast.before
        /\ \A k \in DOMAIN sessions :
              Cardinality({i \in 1..Len(poLast.results) :
                              poLast.results[i].sessionId = sessions[k].id}) = 1
        /\ Len(poLast.results) = Cardinality(DOMAIN sessions)
        /\ \A i \in 1..Len(poLast.results) :
              \A k \in DOMAIN sessions :
                  sessions[k].id = poLast.results[i].sessionId =>
                      (poLast.results[i].healthy <=> isSessionValid(sessions[k], poLast.at))

(***************************************************************************)
(* C40: the source filter of batch mode and of continuous mode             *)
(***************************************************************************)
\* Number(str) of the text of an octet (decimal digits, or none): <<>> is NaN
Number(str) ==
    LET s == Trim(str) IN
    IF s = <<>> THEN <<0>>
    ELSE IF \A c \in Range(s) : IsDigit(c) THEN <<DigitsValue(s, 0)>>
    ELSE NaN

\* octets[i] of an index past the end
Undefined == <<0, 0>>

OctetAt(octets, i) == IF i <= Len(octets) THEN octets[i] ELSE Undefined

\* a !== b
StrictlyDiffer(a, b) == a = NaN \/ b = NaN \/ a # b

\* src/nodes/Snmp/GenericFunctions.ts: the body of the loop of its isSourceAllowed
SimplifiedRuleMatches(sourceAddress, allowed) ==
    IF "/" \in Range(allowed)
    THEN LET seg == Split(allowed, "/")
             network == seg[1]
             prefix == parseInt(seg[2])
             sourceStrs == Split(sourceAddress, ".")
             networkStrs == Split(network, ".")
             sourceOctets == [i \in 1..Len(sourceStrs) |-> Number(sourceStrs[i])]
             networkOctets == [i \in 1..Len(networkStrs) |-> Number(networkStrs[i])]
         IN  IF prefix # NaN /\ prefix[1] >= 24
             THEN \A i \in 1..(prefix[1] \div 8) :
                     ~StrictlyDiffer(OctetAt(sourceOctets, i), OctetAt(networkOctets, i))
             ELSE sourceAddress = network
    ELSE sourceAddress = allowed

\* src/nodes/Snmp/GenericFunctions.ts: isSourceAllowed, the filter of the
\* snmpTrapReceiver of that file
isSourceAllowed_src(sourceAddress, allowedSources) ==
    IF allowedSources = <<>> THEN TRUE
    ELSE \E i \in 1..Len(allowedSources) : SimplifiedRuleMatches(sourceAddress, allowedSources[i])

SameLists ==
    { SetToSeq(S) : S \in { T \in SUBSET FilterRules : Cardinality(T) <= MaxRules + 1 } }

\* A datagram from src reaches a listener of each mode; the listeners have the
\* same list of allowed sources.
SourceChecked(src) ==
    /\ trLast' = [op |-> "filter", source |-> src,
                  batch |-> isSourceAllowed_src(Dotted(src), TextsOf(allowedInput)),
                  batchCidr |-> isSourceAllowed(Dotted(src), TextsOf(allowedInput)),
                  continuous |-> isAllowedSource(Dotted(src), TextsOf(allowedInput))]
    /\ UNCHANGED <<now, allowedInput, activeTrapListeners, trapListeners, trigger,
                   rlVars, caVars, poVars, orVars>>

SameFilterNext == \E src \in Sources : SourceChecked(src)

InitSameFilter ==
    /\ now = 0
    /\ OrIdle
    /\ RlIdle
    /\ CaIdle
    /\ PoIdle
    /\ allowedInput \in SameLists
    /\ TrInit

SpecSameFilter == InitSameFilter /\ [][SameFilterNext]_vars

\* C40: for every source address and every list of allowed sources, the filter
\* of batch mode (isSourceAllowed, in each of its two copies) and the filter of
\* continuous mode (isAllowedSource) give the same answer: both accept the
\* datagram or both drop it.
C40_SameDecisionInBothModes ==
    trLast.op = "filter" =>
        /\ trLast.batch <=> trLast.continuous
        /\ trLast.batchCidr <=> trLast.continuous

====
